---- MODULE Spec2Model ----
(***************************************************************************)
(* Tile-layer decoding and global-id resolution of the tiled-parser crate. *)
(*                                                                         *)
(* A raw 32-bit id is held as its two 16-bit halves <<hi, lo>>; masks and   *)
(* shifts are computed bit by bit on the 32 bits of the two halves.        *)
(* Signed 32-bit coordinates are integers in MinI32..MaxI32 and every      *)
(* addition and subtraction on them is checked for overflow: a build with  *)
(* overflow checks panics, a build without them wraps.  Unsigned extents   *)
(* (widths, heights, first gids) are naturals below 2^31.                  *)
(***************************************************************************)
EXTENDS Integers, Sequences, FiniteSets, TLC

VARIABLES
    ctx,              \* ParseContext: [tilesets (first gid of each entry), infinite]
    overflow_checks,  \* build profile: TRUE panics on integer overflow, FALSE wraps
    short_reads,      \* how many bytes each read() of a decompressing reader may return
    document,         \* the document handed to Map::parse_str or Tileset::parse_str,
                      \* and what was put in it
    twin,             \* a second layer: the content of layer_node stored as chunks
    tileset,          \* outcome of Tileset::parse_str on the document
    layer_node,       \* the <layer> element handed to TileLayer::parse
    src_ids,          \* the raw ids the document's author wrote into layer_node
    parsed,           \* outcome of TileLayer::parse
    call,             \* the last call of a pure function or accessor and its result
    gids,             \* the Gids iterator created by TileLayer::gids()
    yielded,          \* what the iterator has returned so far, in order
    runs              \* number of times gids() was called on the parsed layer

vars == <<ctx, overflow_checks, short_reads, document, twin, tileset, layer_node, src_ids, parsed, call, gids, yielded, runs>>

----------------------------------------------------------------------------
(* Bounds of the model *)

MaxEntries == 3     \* tileset entries per map
MaxDim == 2         \* declared width/height of a finite layer
MaxChunks == 2      \* chunk elements per infinite layer
MaxCoord == 2       \* gid_at is queried on -MaxCoord..MaxCoord and the i32 extremes
MaxRuns == 2        \* gids() calls per parsed layer
MaxIds == 2         \* raw ids per binary payload
MaxShortReads == 1  \* read() calls of a decompressing reader that may come back short
MaxTokens == 2      \* tokens per CSV payload handed to the decoder

----------------------------------------------------------------------------
(* 32-bit words *)

MaxI32 == 2147483647
MinI32 == -MaxI32 - 1

Pow2(n) == 2 ^ n

\* The u32 whose upper half is hi and lower half is lo (hi, lo in 0..65535).
U32(hi, lo) == <<hi, lo>>

\* Bit i (0..31) of a word; bit 0 is the least significant.
Bit(a, i) == IF i < 16 THEN (a[2] \div Pow2(i)) % 2 ELSE (a[1] \div Pow2(i - 16)) % 2

RECURSIVE HalfFrom(_, _, _)
HalfFrom(F(_), base, i) ==
    IF i > 15 THEN 0 ELSE F(base + i) * Pow2(i) + HalfFrom(F, base, i + 1)

\* The word with bit F(i) at each position i of 0..31.
Word(F(_)) == <<HalfFrom(F, 16, 0), HalfFrom(F, 0, 0)>>

BitAnd(a, b) == Word(LAMBDA i : Bit(a, i) * Bit(b, i))
BitNot(a) == Word(LAMBDA i : 1 - Bit(a, i))
Shr(a, n) == Word(LAMBDA i : IF i + n <= 31 THEN Bit(a, i + n) ELSE 0)
IsZero(a) == \A i \in 0..31 : Bit(a, i) = 0

\* Numeric value of a word; defined for words below 2^31 only.
Val(a) == a[1] * 65536 + a[2]

\* Bitwise and of two small naturals (u8 operands of the Flip tests).
RECURSIVE AndNat(_, _)
AndNat(a, b) ==
    IF a = 0 \/ b = 0 THEN 0
    ELSE (a % 2) * (b % 2) + 2 * AndNat(a \div 2, b \div 2)

\* i32 addition and subtraction: whether they overflow, and the wrapped result.
AddOverflows(a, b) == (b > 0 /\ a > MaxI32 - b) \/ (b < 0 /\ a < MinI32 - b)
SubOverflows(a, b) == (b > 0 /\ a < MinI32 + b) \/ (b < 0 /\ a > MaxI32 + b)

wrapping_add(a, b) ==
    IF b > 0 /\ a > MaxI32 - b THEN ((a - MaxI32) - 1) + ((b - MaxI32) - 1)
    ELSE IF b < 0 /\ a < MinI32 - b THEN ((a + MaxI32) + 1) + ((b + MaxI32) + 1)
    ELSE a + b

wrapping_sub(a, b) ==
    IF b > 0 /\ a < MinI32 + b THEN ((a + MaxI32) + 1) - ((b - MaxI32) - 1)
    ELSE IF b < 0 /\ a > MaxI32 + b THEN ((a - MaxI32) - 1) - ((b + MaxI32) + 1)
    ELSE a - b

\* `n as i32` of a u32 and `v as u32` of an i32 (two's complement reinterpretation).
AsI32(n) == IF n <= MaxI32 THEN n ELSE ((n - MaxI32) - 1) + MinI32
AsU32(v) == IF v >= 0 THEN v ELSE ((v + MaxI32) + 1) + MaxI32 + 1

----------------------------------------------------------------------------
(* tile.rs: Gid, Flip, Gid::resolve *)

GidNull == [tag |-> "Null"]
GidValue(tileset_index, tile_id, flip) ==
    [tag |-> "Value", tileset_index |-> tileset_index, tile_id |-> tile_id, flip |-> flip]

FLIP_FLAGS_Top3 == Word(LAMBDA i : IF i >= 29 THEN 1 ELSE 0)

\* 0b11110000_00000000_00000000_00000000
FLIP_FLAGS == Word(LAMBDA i : IF i >= 28 THEN 1 ELSE 0)

FLIPPED_HORIZONTALLY_FLAG == 8
FLIPPED_VERTICALLY_FLAG == 4
FLIPPED_DIAGONALLY_FLAG == 2
ROTATED_HEXAGONAL_120_FLAG == 1

is_flipped_horizontal(flip) == AndNat(flip, FLIPPED_HORIZONTALLY_FLAG) # 0
is_flipped_vertical(flip) == AndNat(flip, FLIPPED_VERTICALLY_FLAG) # 0
is_flipped_diagonal(flip) == AndNat(flip, FLIPPED_DIAGONALLY_FLAG) # 0
is_rotated_hex_120(flip) == AndNat(flip, ROTATED_HEXAGONAL_120_FLAG) # 0

\* A scan from the start of the list: the first entry whose first_gid <= gid.
RECURSIVE ScanFwd(_, _, _, _)
ScanFwd(gid, flip_bits, entries, i) ==
    IF i = 0 THEN GidNull
    ELSE LET j == Len(entries) + 1 - i IN
         IF gid >= entries[j]
         THEN GidValue((j - 1) % 65536, gid - entries[j], flip_bits % 256)
         ELSE ScanFwd(gid, flip_bits, entries, i - 1)

\* entries.iter().enumerate().rev(): positions i = Len(entries)..1, the first
\* match returns; tileset_index as u16, Flip(flip_bits as u8).
RECURSIVE ScanRev(_, _, _, _)
ScanRev(gid, flip_bits, entries, i) ==
    IF i = 0 THEN GidNull
    ELSE IF gid >= entries[i]
         THEN GidValue((i - 1) % 65536, gid - entries[i], flip_bits % 256)
         ELSE ScanRev(gid, flip_bits, entries, i - 1)

resolve(gid, entries) ==
    IF IsZero(gid) THEN GidNull
    ELSE LET flip_bits == Val(Shr(BitAnd(gid, FLIP_FLAGS), 28))
             stripped == Val(BitAnd(gid, BitNot(FLIP_FLAGS)))
         IN  ScanRev(stripped, flip_bits, entries, Len(entries))

----------------------------------------------------------------------------
(* Results and panics *)

Ok(v) == [tag |-> "Ok", val |-> v]
Err(e) == [tag |-> "Err", error |-> e]
Panic(what) == [tag |-> "Panic", what |-> what]

\* An i32 operation: panics on overflow in a build with overflow checks, wraps otherwise.
Checked(overflows, wrapped) ==
    IF overflows /\ overflow_checks THEN Panic("arithmetic overflow") ELSE Ok(wrapped)

CheckedAdd(a, b) == Checked(AddOverflows(a, b), wrapping_add(a, b))
CheckedSub(a, b) == Checked(SubOverflows(a, b), wrapping_sub(a, b))

\* F applied to the value of v (v is evaluated once, before F's body).
Eval(v, F(_)) == CHOOSE r \in {F(x) : x \in {v}} : TRUE

\* The word of a natural below 2^31.
ToWord(n) == U32(n \div 65536, n % 65536)

\* u32 multiplication, most significant bit of b first: the running product is
\* doubled, then a is added where the bit of b is set.  `overflow` records a
\* bit or a carry leaving the 32 bits; `word` is the product modulo 2^32.
MulStep(acc, a, bit) ==
    LET lo2 == 2 * acc.word[2]
        hi2 == 2 * acc.word[1] + (lo2 \div 65536)
        lo3 == (lo2 % 65536) + (IF bit = 1 THEN a[2] ELSE 0)
        hi3 == (hi2 % 65536) + (IF bit = 1 THEN a[1] ELSE 0) + (lo3 \div 65536)
    IN  [overflow |-> acc.overflow \/ hi2 >= 65536 \/ hi3 >= 65536,
         word |-> U32(hi3 % 65536, lo3 % 65536)]

RECURSIVE MulFrom(_, _, _, _)
MulFrom(a, b, i, acc) ==
    IF i < 0 THEN acc
    ELSE Eval(MulStep(acc, a, Bit(b, i)), LAMBDA next : MulFrom(a, b, i - 1, next))

MulU32(a, b) == MulFrom(ToWord(a), ToWord(b), 31, [overflow |-> FALSE, word |-> U32(0, 0)])

\* u32 multiplication: panics on overflow in a build with overflow checks.
CheckedMulU32(a, b) ==
    Eval(MulU32(a, b), LAMBDA m : Checked(m.overflow, Val(m.word)))

Min(a, b) == IF b < a THEN b ELSE a
Max(a, b) == IF b > a THEN b ELSE a

None == <<>>
Some(v) == <<v>>

----------------------------------------------------------------------------
(* XML nodes as roxmltree presents them: a tag name, attributes in document *)
(* order, the element's text if it has any, and its element children.       *)
(* Text is a sequence of one-character strings; a numeric attribute carries *)
(* the integer its text denotes.                                            *)

Node(name, attrs, text, children) ==
    [name |-> name, attrs |-> attrs, text |-> text, children |-> children]

Attr(name, value) == [name |-> name, value |-> value]

\* Node::attribute(name): the value of the first attribute of that name.
RECURSIVE AttrFrom(_, _, _)
AttrFrom(attrs, name, i) ==
    IF i > Len(attrs) THEN None
    ELSE IF attrs[i].name = name THEN Some(attrs[i].value)
    ELSE AttrFrom(attrs, name, i + 1)

attribute(node, name) == AttrFrom(node.attrs, name, 1)

\* Node::first_element_child()
first_element_child(node) ==
    IF node.children = <<>> THEN None ELSE Some(node.children[1])

\* str::parse::<i32>() and str::parse::<u32>() of an attribute's number.
parse_i32(value) ==
    IF value >= MinI32 /\ value <= MaxI32 THEN Ok(value) ELSE Err("ParseIntError")
parse_u32(value) ==
    IF value >= 0 THEN Ok(value) ELSE Err("ParseIntError")

----------------------------------------------------------------------------
(* layer.rs: the payload decoder, CSV branch *)

Whitespace == {" ", "\n", "\t", "\r"}
Digits == {"0", "1", "2", "3", "4", "5", "6", "7", "8", "9"}

DigitValue(c) ==
    CASE c = "0" -> 0 [] c = "1" -> 1 [] c = "2" -> 2 [] c = "3" -> 3 [] c = "4" -> 4
      [] c = "5" -> 5 [] c = "6" -> 6 [] c = "7" -> 7 [] c = "8" -> 8 [] c = "9" -> 9

\* str::trim()
RECURSIVE TrimStart(_)
TrimStart(s) ==
    IF s # <<>> /\ Head(s) \in Whitespace THEN TrimStart(Tail(s)) ELSE s

RECURSIVE TrimEnd(_)
TrimEnd(s) ==
    IF s # <<>> /\ s[Len(s)] \in Whitespace THEN TrimEnd(SubSeq(s, 1, Len(s) - 1)) ELSE s

\* trim() that leaves trailing whitespace in place.
trim_StartOnly(s) == TrimStart(s)

trim(s) == TrimEnd(TrimStart(s))

\* str::split(','): the pieces between commas; an empty text is one empty piece.
RECURSIVE SplitFrom(_, _, _)
SplitFrom(s, i, cur) ==
    IF i > Len(s) THEN <<cur>>
    ELSE IF s[i] = "," THEN <<cur>> \o SplitFrom(s, i + 1, <<>>)
    ELSE SplitFrom(s, i + 1, Append(cur, s[i]))

split(s) == SplitFrom(s, 1, <<>>)

\* u32::from_str: an optional '+', then one or more decimal digits, the value
\* accumulated digit by digit (in two 16-bit halves) and rejected past u32::MAX.
RECURSIVE ParseDigits(_, _, _)
ParseDigits(s, i, acc) ==
    IF i > Len(s) THEN Ok(U32(acc.hi, acc.lo))
    ELSE IF s[i] \notin Digits THEN Err("ParseIntError")
    ELSE LET lo2 == acc.lo * 10 + DigitValue(s[i])
             hi2 == acc.hi * 10 + lo2 \div 65536
         IN  IF hi2 > 65535 THEN Err("ParseIntError")
             ELSE Eval([hi |-> hi2, lo |-> lo2 % 65536],
                       LAMBDA next : ParseDigits(s, i + 1, next))

parse_u32_str(s) ==
    IF s = <<>> THEN Err("ParseIntError")
    ELSE LET digits == IF Head(s) = "+" THEN Tail(s) ELSE s
         IN  IF digits = <<>> THEN Err("ParseIntError")
             ELSE ParseDigits(digits, 1, [hi |-> 0, lo |-> 0])

\* parse_csv: the ids in order, or the error of the first token that fails.
RECURSIVE ParseTokens(_, _, _)
ParseTokens(tokens, i, result) ==
    IF i > Len(tokens) THEN Ok(result)
    ELSE Eval(trim(tokens[i]), LAMBDA s :
         Eval(parse_u32_str(s), LAMBDA r :
              IF r.tag = "Err" THEN r
              ELSE Eval(Append(result, r.val),
                        LAMBDA pushed : ParseTokens(tokens, i + 1, pushed))))

parse_csv(csv) == Eval(split(csv), LAMBDA tokens : ParseTokens(tokens, 1, <<>>))

----------------------------------------------------------------------------
(* layer.rs: the payload decoder, base64 branches.  Bytes are 0..255.       *)

\* BASE64_STANDARD: the alphabet, '=' padding required and canonical.
B64Alphabet ==
    << "A", "B", "C", "D", "E", "F", "G", "H", "I", "J", "K", "L", "M", "N", "O", "P",
       "Q", "R", "S", "T", "U", "V", "W", "X", "Y", "Z", "a", "b", "c", "d", "e", "f",
       "g", "h", "i", "j", "k", "l", "m", "n", "o", "p", "q", "r", "s", "t", "u", "v",
       "w", "x", "y", "z", "0", "1", "2", "3", "4", "5", "6", "7", "8", "9", "+", "/" >>

IsB64(c) == \E i \in 1..64 : B64Alphabet[i] = c
B64Index(c) == (CHOOSE i \in 1..64 : B64Alphabet[i] = c) - 1

\* The bytes of the sextets q[i..]: three per four symbols; a tail of two or
\* three symbols gives one or two bytes and must leave no stray bits.
RECURSIVE B64Bytes(_, _)
B64Bytes(q, i) ==
    LET rem == Len(q) - i + 1 IN
    IF rem <= 0 THEN Ok(<<>>)
    ELSE IF rem = 1 THEN Err("DecodeLayerError")
    ELSE LET b1 == q[i] * 4 + (q[i + 1] \div 16) IN
         IF rem = 2
         THEN IF q[i + 1] % 16 # 0 THEN Err("DecodeLayerError") ELSE Ok(<<b1>>)
         ELSE LET b2 == (q[i + 1] % 16) * 16 + (q[i + 2] \div 4) IN
              IF rem = 3
              THEN IF q[i + 2] % 4 # 0 THEN Err("DecodeLayerError") ELSE Ok(<<b1, b2>>)
              ELSE LET b3 == (q[i + 2] % 4) * 64 + q[i + 3] IN
                   Eval(B64Bytes(q, i + 4),
                        LAMBDA r : IF r.tag = "Err" THEN r
                                   ELSE Ok(<<b1, b2, b3>> \o r.val))

\* decode_base64: BASE64_STANDARD.decode(..).map_err(|_| Error::DecodeLayerError)
decode_base64(encoded_bytes) ==
    LET n == Len(encoded_bytes)
        pad == IF n >= 1 /\ encoded_bytes[n] = "="
               THEN (IF n >= 2 /\ encoded_bytes[n - 1] = "=" THEN 2 ELSE 1)
               ELSE 0
        body == SubSeq(encoded_bytes, 1, n - pad)
    IN  IF n % 4 # 0 THEN Err("DecodeLayerError")
        ELSE IF \E k \in 1..Len(body) : ~IsB64(body[k]) THEN Err("DecodeLayerError")
        ELSE Eval([k \in 1..Len(body) |-> B64Index(body[k])],
                  LAMBDA q : B64Bytes(q, 1))

\* u32::from_le_bytes
from_le_bytes(b) == U32(b[4] * 256 + b[3], b[2] * 256 + b[1])

\* A reader (impl Read): the bytes it will deliver, whether it is a slice or a
\* decompressing stream, and whether the stream turns out corrupt.
SliceReader(data) == [kind |-> "slice", data |-> data, corrupt |-> FALSE]
StreamReader(data) == [kind |-> "stream", data |-> data, corrupt |-> FALSE]
CorruptStream == [kind |-> "stream", data |-> <<>>, corrupt |-> TRUE]

\* Read::read(&mut bytes) on a 4-byte buffer, the k-th call, with `remaining`
\* bytes left: a slice copies as many as fit; a decompressing stream may hand
\* over fewer (short_reads[k]) although more are to come.
ReadCount(kind, k, remaining) ==
    Min(IF kind = "slice" \/ k > Len(short_reads) THEN 4 ELSE short_reads[k], remaining)

\* while read.read(&mut bytes)? != 0 { result.push(u32::from_le_bytes(bytes)) }
\* st.bytes is the buffer, which keeps what a shorter read did not overwrite.
RECURSIVE ReadLoop(_, _, _, _)
ReadLoop(read, pos, k, st) ==
    LET n == ReadCount(read.kind, k, Len(read.data) - pos) IN
    IF n = 0 THEN Ok(st.result)
    ELSE Eval([j \in 1..4 |-> IF j <= n THEN read.data[pos + j] ELSE st.bytes[j]],
              LAMBDA bytes :
                Eval([bytes |-> bytes, result |-> Append(st.result, from_le_bytes(bytes))],
                     LAMBDA next : ReadLoop(read, pos + n, k + 1, next)))

\* parse_bytes; a corrupt stream makes some read() fail, and the `?` returns
\* that error in place of whatever was pushed before.
parse_bytes(read) ==
    IF read.corrupt THEN Err("IOError")
    ELSE ReadLoop(read, 0, 1, [bytes |-> <<0, 0, 0, 0>>, result |-> <<>>])

----------------------------------------------------------------------------
(* The decompressing readers of flate2 and zstd, on the streams the model   *)
(* feeds them: one member or frame whose content sits in a single stored    *)
(* (uncompressed) block.  Anything else reads as a corrupt stream.          *)

\* u32::to_le_bytes
to_le_bytes(w) == <<w[2] % 256, w[2] \div 256, w[1] % 256, w[1] \div 256>>

\* Bitwise exclusive or of two naturals.
RECURSIVE XorNat(_, _)
XorNat(a, b) ==
    IF a = 0 THEN b
    ELSE IF b = 0 THEN a
    ELSE (((a % 2) + (b % 2)) % 2) + 2 * XorNat(a \div 2, b \div 2)

\* CRC-32 (reflected polynomial 0xEDB88320), bit by bit.
CrcStep(c) ==
    LET s == U32(c[1] \div 2, (c[1] % 2) * 32768 + (c[2] \div 2))
    IN  IF c[2] % 2 = 1 THEN U32(XorNat(s[1], 60856), XorNat(s[2], 33568)) ELSE s

RECURSIVE CrcRounds(_, _)
CrcRounds(c, n) ==
    IF n = 0 THEN c ELSE Eval(CrcStep(c), LAMBDA d : CrcRounds(d, n - 1))

RECURSIVE CrcBytes(_, _, _)
CrcBytes(data, i, c) ==
    IF i > Len(data) THEN c
    ELSE Eval(CrcRounds(U32(c[1], XorNat(c[2], data[i])), 8),
              LAMBDA d : CrcBytes(data, i + 1, d))

Crc32(data) ==
    Eval(CrcBytes(data, 1, U32(65535, 65535)), LAMBDA c : U32(65535 - c[1], 65535 - c[2]))

\* Adler-32: two running sums modulo 65521.
RECURSIVE AdlerFrom(_, _, _, _)
AdlerFrom(data, i, a, b) ==
    IF i > Len(data) THEN U32(b, a)
    ELSE Eval((a + data[i]) % 65521,
              LAMBDA a2 : Eval((b + a2) % 65521, LAMBDA b2 : AdlerFrom(data, i + 1, a2, b2)))

Adler32(data) == AdlerFrom(data, 1, 1, 0)

\* A final stored deflate block at bytes[i..]: 0x01, LEN, NLEN = ~LEN, LEN bytes.
InflateStored(bytes, i) ==
    IF Len(bytes) < i + 4 \/ bytes[i] # 1 THEN Err("corrupt deflate stream")
    ELSE LET len == bytes[i + 1] + 256 * bytes[i + 2]
             nlen == bytes[i + 3] + 256 * bytes[i + 4]
         IN  IF len + nlen # 65535 \/ Len(bytes) < i + 4 + len
             THEN Err("corrupt deflate stream")
             ELSE Ok([data |-> SubSeq(bytes, i + 5, i + 4 + len), next |-> i + 5 + len])

\* The 10-byte gzip member header without optional fields.
GzHeader == <<31, 139, 8, 0, 0, 0, 0, 0, 0, 255>>

\* flate2::read::GzDecoder: header, deflate data, then CRC-32 and length.
GzDecoder(bytes) ==
    IF Len(bytes) < 10 \/ SubSeq(bytes, 1, 10) # GzHeader THEN CorruptStream
    ELSE Eval(InflateStored(bytes, 11),
              LAMBDA b :
                IF b.tag = "Err" THEN CorruptStream
                ELSE IF SubSeq(bytes, b.val.next, b.val.next + 7)
                        # to_le_bytes(Crc32(b.val.data))
                            \o to_le_bytes(U32(0, Len(b.val.data)))
                THEN CorruptStream
                ELSE StreamReader(b.val.data))

\* The 2-byte zlib header (deflate, 32K window, no dictionary).
ZlibHeader == <<120, 1>>

\* flate2::read::ZlibDecoder: header, deflate data, then Adler-32 (big-endian).
ZlibDecoder(bytes) ==
    IF Len(bytes) < 2 \/ SubSeq(bytes, 1, 2) # ZlibHeader THEN CorruptStream
    ELSE Eval(InflateStored(bytes, 3),
              LAMBDA b :
                IF b.tag = "Err" THEN CorruptStream
                ELSE LET sum == to_le_bytes(Adler32(b.val.data))
                     IN  IF SubSeq(bytes, b.val.next, b.val.next + 3)
                            # <<sum[4], sum[3], sum[2], sum[1]>>
                         THEN CorruptStream
                         ELSE StreamReader(b.val.data))

\* The zstd frame magic number 0xFD2FB528, little-endian.
ZstdMagic == <<40, 181, 47, 253>>

\* zstd::stream::Decoder::new: creating the decoder succeeds; a frame that is not
\* magic, descriptor 0x20 (single segment), content size, and one last raw block
\* of that size fails when read.
ZstdDecoder(bytes) ==
    IF Len(bytes) < 9 \/ SubSeq(bytes, 1, 4) # ZstdMagic \/ bytes[5] # 32
    THEN Ok(CorruptStream)
    ELSE LET header == bytes[7] + 256 * bytes[8] + 65536 * bytes[9]
             size == header \div 8
         IN  IF header % 8 # 1 \/ size # bytes[6] \/ Len(bytes) # 9 + size
             THEN Ok(CorruptStream)
             ELSE Ok(StreamReader(SubSeq(bytes, 10, 9 + size)))

\* parse_tile_gids
parse_tile_gids(layer_data, encoding, compression) ==
    IF encoding = Some("csv") /\ compression = None THEN parse_csv(layer_data)
    ELSE IF encoding = Some("base64") /\ compression = None
    THEN Eval(decode_base64(layer_data),
              LAMBDA decoded : IF decoded.tag = "Err" THEN decoded
                               ELSE parse_bytes(SliceReader(decoded.val)))
    ELSE IF encoding = Some("base64") /\ compression = Some("gzip")
    THEN Eval(decode_base64(layer_data),
              LAMBDA decoded : IF decoded.tag = "Err" THEN Err("DecodeLayerError")
                               ELSE parse_bytes(GzDecoder(decoded.val)))
    ELSE IF encoding = Some("base64") /\ compression = Some("zlib")
    THEN Eval(decode_base64(layer_data),
              LAMBDA decoded : IF decoded.tag = "Err" THEN Err("DecodeLayerError")
                               ELSE parse_bytes(ZlibDecoder(decoded.val)))
    ELSE IF encoding = Some("base64") /\ compression = Some("zstd")
    THEN Eval(decode_base64(layer_data),
              LAMBDA decoded :
                IF decoded.tag = "Err" THEN decoded
                ELSE LET decompressed == ZstdDecoder(decoded.val)
                     IN  IF decompressed.tag = "Err" THEN Err("DecodeLayerError")
                         ELSE parse_bytes(decompressed.val))
    ELSE Err("DecodeLayerError")

RECURSIVE ResolveAll(_, _, _)
ResolveAll(raw_ids, entries, i) ==
    IF i > Len(raw_ids) THEN <<>>
    ELSE <<resolve(raw_ids[i], entries)>> \o ResolveAll(raw_ids, entries, i + 1)

----------------------------------------------------------------------------
(* layer.rs: TileLayer and its parse *)

TileLayerRegion(x, y, width, height) ==
    [x |-> x, y |-> y, width |-> width, height |-> height]

\* TileLayer::default()
DefaultTileLayer ==
    [width |-> 0, height |-> 0, region |-> TileLayerRegion(0, 0, 0, 0), tile_gids |-> <<>>]

\* parse_finite_layer_data
parse_finite_layer_data(layer, data_node, c) ==
    LET encoding == attribute(data_node, "encoding")
        compression == attribute(data_node, "compression")
    IN  IF data_node.text = None THEN Err("InvalidLayerError")
        ELSE Eval(parse_tile_gids(trim(data_node.text[1]), encoding, compression),
                  LAMBDA ids :
                    IF ids.tag = "Err" THEN ids
                    ELSE Ok([layer EXCEPT
                               !.tile_gids = ResolveAll(ids.val, c.tilesets, 1),
                               !.region.width = layer.width,
                               !.region.height = layer.height]))

\* One pass of the attribute loop of a chunk element: the attribute sets its
\* field, then the global bounding box is updated (inside the loop, after every
\* attribute) from the fields as they stand at that point.
ChunkAttr(a, st) ==
    LET r == CASE a.name = "x" -> parse_i32(a.value)
               [] a.name = "y" -> parse_i32(a.value)
               [] a.name = "width" -> parse_u32(a.value)
               [] a.name = "height" -> parse_u32(a.value)
               [] OTHER -> Ok(0)
    IN  IF r.tag = "Err" THEN r
        ELSE LET s1 == [st EXCEPT
                          !.x = IF a.name = "x" THEN r.val ELSE @,
                          !.y = IF a.name = "y" THEN r.val ELSE @,
                          !.width = IF a.name = "width" THEN r.val ELSE @,
                          !.height = IF a.name = "height" THEN r.val ELSE @]
                 x2 == CheckedAdd(s1.x, AsI32(s1.width))
                 y2 == CheckedAdd(s1.y, AsI32(s1.height))
             IN  IF x2.tag = "Panic" THEN x2
                 ELSE IF y2.tag = "Panic" THEN y2
                 ELSE Ok([s1 EXCEPT
                            !.global_min_x = Min(@, s1.x),
                            !.global_min_y = Min(@, s1.y),
                            !.global_max_x = Max(@, x2.val),
                            !.global_max_y = Max(@, y2.val)])

\* for attr in chunk_node.attributes()
RECURSIVE ChunkAttrs(_, _, _)
ChunkAttrs(attrs, i, st) ==
    IF i > Len(attrs) THEN Ok(st)
    ELSE Eval(ChunkAttr(attrs[i], st),
              LAMBDA r : IF r.tag # "Ok" THEN r ELSE ChunkAttrs(attrs, i + 1, r.val))

\* One chunk element: its attributes, its rectangle, its decoded and resolved ids.
CollectChunk(chunk_node, acc, encoding, compression, entries) ==
    Eval(ChunkAttrs(chunk_node.attrs, 1,
            [x |-> 0, y |-> 0, width |-> 0, height |-> 0,
             global_min_x |-> acc.global_min_x, global_min_y |-> acc.global_min_y,
             global_max_x |-> acc.global_max_x, global_max_y |-> acc.global_max_y]),
         LAMBDA r :
           IF r.tag # "Ok" THEN r
           ELSE LET st == r.val
                    max_x == CheckedAdd(st.x, AsI32(st.width))
                    max_y == CheckedAdd(st.y, AsI32(st.height))
                IN  IF max_x.tag = "Panic" THEN max_x
                    ELSE IF max_y.tag = "Panic" THEN max_y
                    ELSE IF chunk_node.text = None THEN Err("InvalidLayerError")
                    ELSE Eval(parse_tile_gids(trim(chunk_node.text[1]), encoding, compression),
                              LAMBDA ids :
                                IF ids.tag = "Err" THEN ids
                                ELSE Ok([chunks |-> Append(acc.chunks,
                                            [min_x |-> st.x, min_y |-> st.y,
                                             max_x |-> max_x.val, max_y |-> max_y.val,
                                             tile_gids |-> ResolveAll(ids.val, entries, 1)]),
                                         global_min_x |-> st.global_min_x,
                                         global_min_y |-> st.global_min_y,
                                         global_max_x |-> st.global_max_x,
                                         global_max_y |-> st.global_max_y])))

\* "Collects chunks": the loop over data_node.children(), skipping other nodes.
RECURSIVE CollectChunks(_, _, _, _, _, _)
CollectChunks(nodes, i, acc, encoding, compression, entries) ==
    IF i > Len(nodes) THEN Ok(acc)
    ELSE IF nodes[i].name # "chunk"
    THEN CollectChunks(nodes, i + 1, acc, encoding, compression, entries)
    ELSE Eval(CollectChunk(nodes[i], acc, encoding, compression, entries),
              LAMBDA r :
                IF r.tag # "Ok" THEN r
                ELSE CollectChunks(nodes, i + 1, r.val, encoding, compression, entries))

\* A raster whose cells start as tile 0 of tileset 0.
NewRasterTile0(n) == [k \in 1..n |-> GidValue(0, 0, 0)]

\* vec![Gid::Null; n]
NewRaster(n) == [k \in 1..n |-> GidNull]

\* The copy reading the chunk with the raster's row length.
CompositeCell_RasterStride(raw, chunk, global_x, global_y, raw_width, global_min_x, global_min_y) ==
    LET raw_x == global_x - global_min_x
        raw_y == global_y - global_min_y
        raw_idx == raw_y * AsI32(raw_width) + raw_x
        chunk_x == global_x - chunk.min_x
        chunk_y == global_y - chunk.min_y
        chunk_idx == chunk_y * AsI32(raw_width) + chunk_x
    IN  IF chunk_idx < 0 \/ chunk_idx >= Len(chunk.tile_gids)
        THEN Panic("index out of bounds")
        ELSE IF raw_idx < 0 \/ raw_idx >= Len(raw)
        THEN Panic("index out of bounds")
        ELSE Ok([raw EXCEPT ![raw_idx + 1] = chunk.tile_gids[chunk_idx + 1]])

\* The copy writing each chunk at the raster's origin instead of at its place.
CompositeCell_ChunkLocal(raw, chunk, global_x, global_y, raw_width, global_min_x, global_min_y) ==
    LET chunk_width == chunk.max_x - chunk.min_x
        chunk_x == global_x - chunk.min_x
        chunk_y == global_y - chunk.min_y
        raw_idx == chunk_y * AsI32(raw_width) + chunk_x
        chunk_idx == chunk_y * chunk_width + chunk_x
    IN  IF chunk_idx < 0 \/ chunk_idx >= Len(chunk.tile_gids)
        THEN Panic("index out of bounds")
        ELSE IF raw_idx < 0 \/ raw_idx >= Len(raw)
        THEN Panic("index out of bounds")
        ELSE Ok([raw EXCEPT ![raw_idx + 1] = chunk.tile_gids[chunk_idx + 1]])

\* The body of the two inner loops of "Composites chunks to vec" for the cell at
\* (global_x, global_y) of a chunk: one copy from the chunk into the raster.
CompositeCell(raw, chunk, global_x, global_y, raw_width, global_min_x, global_min_y) ==
    LET chunk_width == chunk.max_x - chunk.min_x
        raw_x == global_x - global_min_x
        raw_y == global_y - global_min_y
        raw_idx == raw_y * AsI32(raw_width) + raw_x
        chunk_x == global_x - chunk.min_x
        chunk_y == global_y - chunk.min_y
        chunk_idx == chunk_y * chunk_width + chunk_x
    IN  IF chunk_idx < 0 \/ chunk_idx >= Len(chunk.tile_gids)
        THEN Panic("index out of bounds")
        ELSE IF raw_idx < 0 \/ raw_idx >= Len(raw)
        THEN Panic("index out of bounds")
        ELSE Ok([raw EXCEPT ![raw_idx + 1] = chunk.tile_gids[chunk_idx + 1]])

\* for global_y in min_y..max_y { for global_x in min_x..max_x { ... } }, from
\* the cell (global_x, global_y) on.  An empty range of x leaves every row empty.
RECURSIVE CompositeChunk(_, _, _, _, _, _, _)
CompositeChunk(raw, chunk, global_x, global_y, raw_width, global_min_x, global_min_y) ==
    IF chunk.min_x >= chunk.max_x \/ global_y >= chunk.max_y THEN Ok(raw)
    ELSE IF global_x >= chunk.max_x
    THEN CompositeChunk(raw, chunk, chunk.min_x, global_y + 1, raw_width,
                        global_min_x, global_min_y)
    ELSE Eval(CompositeCell(raw, chunk, global_x, global_y,
                            raw_width, global_min_x, global_min_y),
              LAMBDA r :
                IF r.tag # "Ok" THEN r
                ELSE CompositeChunk(r.val, chunk, global_x + 1, global_y, raw_width,
                                    global_min_x, global_min_y))

\* The chunks composited from the last collected to the first.
RECURSIVE Composite_LastFirst(_, _, _, _, _, _)
Composite_LastFirst(raw, chunks, i, raw_width, global_min_x, global_min_y) ==
    IF i > Len(chunks) THEN Ok(raw)
    ELSE LET chunk == chunks[Len(chunks) + 1 - i] IN
         Eval(CompositeChunk(raw, chunk, chunk.min_x, chunk.min_y,
                             raw_width, global_min_x, global_min_y),
              LAMBDA r :
                IF r.tag # "Ok" THEN r
                ELSE Composite_LastFirst(r.val, chunks, i + 1, raw_width,
                                         global_min_x, global_min_y))

\* for chunk in chunks: in the order they were collected.
RECURSIVE Composite(_, _, _, _, _, _)
Composite(raw, chunks, i, raw_width, global_min_x, global_min_y) ==
    IF i > Len(chunks) THEN Ok(raw)
    ELSE Eval(CompositeChunk(raw, chunks[i], chunks[i].min_x, chunks[i].min_y,
                             raw_width, global_min_x, global_min_y),
              LAMBDA r :
                IF r.tag # "Ok" THEN r
                ELSE Composite(r.val, chunks, i + 1, raw_width, global_min_x, global_min_y))

\* "Allocates vec", "Composites chunks to vec" and "Writes to layer".
AllocateAndComposite(layer, acc) ==
    LET dx == CheckedSub(acc.global_max_x, acc.global_min_x)
        dy == CheckedSub(acc.global_max_y, acc.global_min_y)
    IN  IF dx.tag = "Panic" THEN dx
        ELSE IF dy.tag = "Panic" THEN dy
        ELSE LET raw_width == AsU32(dx.val)
                 raw_height == AsU32(dy.val)
             IN  Eval(CheckedMulU32(raw_width, raw_height),
                      LAMBDA cells :
                        IF cells.tag = "Panic" THEN cells
                        ELSE
                 Eval(Composite(NewRaster(cells.val), acc.chunks, 1, raw_width,
                                acc.global_min_x, acc.global_min_y),
                      LAMBDA composited :
                        IF composited.tag # "Ok" THEN composited
                        ELSE Ok([layer EXCEPT
                                   !.tile_gids = composited.val,
                                   !.region = TileLayerRegion(acc.global_min_x,
                                                 acc.global_min_y, raw_width, raw_height)])))

\* parse_infinite_layer_data
parse_infinite_layer_data(layer, data_node, c) ==
    Eval(CollectChunks(data_node.children, 1,
            [chunks |-> <<>>,
             global_min_x |-> MaxI32, global_min_y |-> MaxI32,
             global_max_x |-> MinI32, global_max_y |-> MinI32],
            attribute(data_node, "encoding"), attribute(data_node, "compression"),
            c.tilesets),
         LAMBDA collected :
           IF collected.tag # "Ok" THEN collected
           ELSE AllocateAndComposite(layer, collected.val))

\* The attribute loop of TileLayer::parse.
RECURSIVE LayerAttrs(_, _, _)
LayerAttrs(attrs, i, result) ==
    IF i > Len(attrs) THEN Ok(result)
    ELSE LET a == attrs[i] IN
         IF a.name \in {"width", "height"}
         THEN LET r == parse_u32(a.value)
              IN  IF r.tag = "Err" THEN r
                  ELSE Eval(IF a.name = "width" THEN [result EXCEPT !.width = r.val]
                                                ELSE [result EXCEPT !.height = r.val],
                            LAMBDA next : LayerAttrs(attrs, i + 1, next))
         ELSE LayerAttrs(attrs, i + 1, result)

\* TileLayer::parse
TileLayer_parse(node, c) ==
    Eval(LayerAttrs(node.attrs, 1, DefaultTileLayer),
         LAMBDA result :
           IF result.tag = "Err" THEN result
           ELSE LET data_node == first_element_child(node)
                IN  IF data_node = None THEN Err("InvalidLayerError")
                    ELSE IF c.infinite
                         THEN parse_infinite_layer_data(result.val, data_node[1], c)
                         ELSE parse_finite_layer_data(result.val, data_node[1], c))

----------------------------------------------------------------------------
(* layer.rs, map.rs: layers, group layers and the map around them.  The     *)
(* documents of the model hold tileset, layer and group elements with the   *)
(* attributes id, name, width, height, firstgid, source and infinite.       *)

\* The attribute loop of CommonLayerFields::parse.
RECURSIVE CommonAttrs(_, _, _)
CommonAttrs(attrs, i, common) ==
    IF i > Len(attrs) THEN Ok(common)
    ELSE LET a == attrs[i] IN
         IF a.name = "id"
         THEN LET r == parse_u32(a.value)
              IN  IF r.tag = "Err" THEN r
                  ELSE Eval([common EXCEPT !.id = r.val],
                            LAMBDA next : CommonAttrs(attrs, i + 1, next))
         ELSE IF a.name = "name"
         THEN Eval([common EXCEPT !.name = a.value],
                   LAMBDA next : CommonAttrs(attrs, i + 1, next))
         ELSE CommonAttrs(attrs, i + 1, common)

\* CommonLayerFields::parse (a properties child of the model has no property
\* children, so Properties::parse returns an empty set for it).
CommonLayerFields_parse(node) == CommonAttrs(node.attrs, 1, [id |-> 0, name |-> ""])

\* Layer::new
Layer_new(fields, kind) == [id |-> fields.id, name |-> fields.name, kind |-> kind]

\* Layer::parse_tile_layer
Layer_parse_tile_layer(tile_layer_node, c) ==
    Eval(CommonLayerFields_parse(tile_layer_node),
         LAMBDA fields :
           IF fields.tag # "Ok" THEN fields
           ELSE Eval(TileLayer_parse(tile_layer_node, c),
                     LAMBDA kind :
                       IF kind.tag # "Ok" THEN kind
                       ELSE Ok(Layer_new(fields.val,
                                         [tag |-> "TileLayer", layer |-> kind.val]))))

RECURSIVE GroupChildren(_, _, _, _)
RECURSIVE Layer_parse_group_layer(_, _)

\* The loop parsing the tile layers of a group against no tilesets.
RECURSIVE GroupChildren_NoTilesets(_, _, _, _)
GroupChildren_NoTilesets(nodes, i, result, c) ==
    IF i > Len(nodes) THEN Ok(result)
    ELSE IF nodes[i].name = "layer"
    THEN Eval(Layer_parse_tile_layer(nodes[i], [c EXCEPT !.tilesets = <<>>]),
              LAMBDA layer :
                IF layer.tag # "Ok" THEN layer
                ELSE GroupChildren_NoTilesets(nodes, i + 1, Append(result, layer.val), c))
    ELSE IF nodes[i].name = "group"
    THEN Eval(Layer_parse_group_layer(nodes[i], c),
              LAMBDA layer :
                IF layer.tag # "Ok" THEN layer
                ELSE GroupChildren_NoTilesets(nodes, i + 1, Append(result, layer.val), c))
    ELSE GroupChildren_NoTilesets(nodes, i + 1, result, c)

\* The loop over group_node.children() of GroupLayer::parse.
GroupChildren(nodes, i, result, c) ==
    IF i > Len(nodes) THEN Ok(result)
    ELSE IF nodes[i].name = "layer"
    THEN Eval(Layer_parse_tile_layer(nodes[i], c),
              LAMBDA layer :
                IF layer.tag # "Ok" THEN layer
                ELSE GroupChildren(nodes, i + 1, Append(result, layer.val), c))
    ELSE IF nodes[i].name = "group"
    THEN Eval(Layer_parse_group_layer(nodes[i], c),
              LAMBDA layer :
                IF layer.tag # "Ok" THEN layer
                ELSE GroupChildren(nodes, i + 1, Append(result, layer.val), c))
    ELSE GroupChildren(nodes, i + 1, result, c)

\* GroupLayer::parse
GroupLayer_parse(group_node, c) == GroupChildren(group_node.children, 1, <<>>, c)

\* Layer::parse_group_layer
Layer_parse_group_layer(group_node, c) ==
    Eval(CommonLayerFields_parse(group_node),
         LAMBDA fields :
           IF fields.tag # "Ok" THEN fields
           ELSE Eval(GroupLayer_parse(group_node, c),
                     LAMBDA kind :
                       IF kind.tag # "Ok" THEN kind
                       ELSE Ok(Layer_new(fields.val,
                                         [tag |-> "GroupLayer", layers |-> kind.val]))))

\* TilesetEntry::parse for an entry that names its source file.
TilesetEntry_parse(entry_node) ==
    LET firstgid == attribute(entry_node, "firstgid")
        r == IF firstgid = None THEN Ok(0) ELSE parse_u32(firstgid[1])
    IN  IF r.tag = "Err" THEN r
        ELSE Ok([first_gid |-> r.val, source |-> attribute(entry_node, "source")])

\* The attribute loop of Map::parse_node.
RECURSIVE MapAttrs(_, _, _)
MapAttrs(attrs, i, map) ==
    IF i > Len(attrs) THEN Ok(map)
    ELSE LET a == attrs[i] IN
         IF a.name = "infinite"
         THEN IF a.value \notin {"0", "1"} THEN Err("ParsingError")
              ELSE Eval([map EXCEPT !.infinite = (a.value = "1")],
                        LAMBDA next : MapAttrs(attrs, i + 1, next))
         ELSE MapAttrs(attrs, i + 1, map)

\* What the layers of a map are parsed against: the first gids of the tileset
\* entries read so far and whether the map is infinite.
MapContext(map) ==
    [tilesets |-> [k \in 1..Len(map.tileset_entries) |-> map.tileset_entries[k].first_gid],
     infinite |-> map.infinite]

\* The loop over map_node.children() of Map::parse_node.
RECURSIVE MapChildren(_, _, _)
MapChildren(nodes, i, map) ==
    IF i > Len(nodes) THEN Ok(map)
    ELSE IF nodes[i].name = "tileset"
    THEN Eval(TilesetEntry_parse(nodes[i]),
              LAMBDA entry :
                IF entry.tag # "Ok" THEN entry
                ELSE Eval([map EXCEPT !.tileset_entries = Append(@, entry.val)],
                          LAMBDA next : MapChildren(nodes, i + 1, next)))
    ELSE IF nodes[i].name \in {"layer", "group"}
    THEN Eval(IF nodes[i].name = "layer"
              THEN Layer_parse_tile_layer(nodes[i], MapContext(map))
              ELSE Layer_parse_group_layer(nodes[i], MapContext(map)),
              LAMBDA layer :
                IF layer.tag # "Ok" THEN layer
                ELSE Eval([map EXCEPT !.layers = Append(@, layer.val)],
                          LAMBDA next : MapChildren(nodes, i + 1, next)))
    ELSE MapChildren(nodes, i + 1, map)

\* Map::parse_node
Map_parse_node(map, map_node) ==
    Eval(MapAttrs(map_node.attrs, 1, map),
         LAMBDA r : IF r.tag # "Ok" THEN r ELSE MapChildren(map_node.children, 1, r.val))

\* The loop over root.children() of Map::parse_str.
RECURSIVE RootChildren(_, _, _)
RootChildren(nodes, i, map) ==
    IF i > Len(nodes) THEN Ok(map)
    ELSE IF nodes[i].name = "map"
    THEN Eval(Map_parse_node(map, nodes[i]),
              LAMBDA r : IF r.tag # "Ok" THEN r ELSE RootChildren(nodes, i + 1, r.val))
    ELSE RootChildren(nodes, i + 1, map)

\* Map::parse_str on the document tree roxmltree builds from xml_str.
Map_parse_str(root) ==
    RootChildren(root.children, 1,
                 [infinite |-> FALSE, tileset_entries |-> <<>>, layers |-> <<>>])

\* Gid::value: the raw id of the gid without its flip flags.
Gid_value(gid) == Val(BitAnd(gid, BitNot(FLIP_FLAGS)))

\* self.tileset_entries.iter().rev().enumerate(): tileset_idx counts 0, 1, ...
\* while the entries are visited from the last to the first.
RECURSIVE LocationScan(_, _, _)
LocationScan(value, entries, tileset_idx) ==
    IF tileset_idx >= Len(entries) THEN None
    ELSE LET first_gid == entries[Len(entries) - tileset_idx] IN
         IF value >= first_gid THEN Some(<<tileset_idx, value - first_gid>>)
         ELSE LocationScan(value, entries, tileset_idx + 1)

\* Map::tile_location_of, on the first gids of the map's tileset entries.
tile_location_of(tileset_entries, gid) == LocationScan(Gid_value(gid), tileset_entries, 0)

----------------------------------------------------------------------------
(* tileset.rs, tile.rs, image.rs: a tileset and its tiles.  The documents   *)
(* of the model hold the attributes name, tilecount and columns, an image   *)
(* child, and tile children with the attributes id and x and an image       *)
(* child.                                                                   *)

\* The attribute loop of Image::parse.
RECURSIVE ImageAttrs(_, _, _)
ImageAttrs(attrs, i, image) ==
    IF i > Len(attrs) THEN Ok(image)
    ELSE LET a == attrs[i] IN
         IF a.name = "source"
         THEN Eval([image EXCEPT !.source = a.value],
                   LAMBDA next : ImageAttrs(attrs, i + 1, next))
         ELSE IF a.name \in {"width", "height"}
         THEN LET r == parse_u32(a.value)
              IN  IF r.tag = "Err" THEN r
                  ELSE Eval(IF a.name = "width" THEN [image EXCEPT !.width = Some(r.val)]
                                                ELSE [image EXCEPT !.height = Some(r.val)],
                            LAMBDA next : ImageAttrs(attrs, i + 1, next))
         ELSE ImageAttrs(attrs, i + 1, image)

\* Image::parse
Image_parse(image_node) ==
    ImageAttrs(image_node.attrs, 1, [source |-> "", width |-> None, height |-> None])

\* Tile::default(): the data of a tile no element describes.
DefaultTile == [x |-> None, y |-> None, width |-> None, height |-> None, image |-> None]

\* The attribute loop of the tile parse: the id and the tile's fields.
RECURSIVE TileAttrs(_, _, _)
TileAttrs(attrs, i, st) ==
    IF i > Len(attrs) THEN Ok(st)
    ELSE LET a == attrs[i] IN
         IF a.name \in {"id", "x", "y", "width", "height"}
         THEN LET r == parse_u32(a.value)
              IN  IF r.tag = "Err" THEN r
                  ELSE Eval(CASE a.name = "id" -> [st EXCEPT !.id = r.val]
                              [] a.name = "x" -> [st EXCEPT !.result.x = Some(r.val)]
                              [] a.name = "y" -> [st EXCEPT !.result.y = Some(r.val)]
                              [] a.name = "width" -> [st EXCEPT !.result.width = Some(r.val)]
                              [] a.name = "height" -> [st EXCEPT !.result.height = Some(r.val)],
                            LAMBDA next : TileAttrs(attrs, i + 1, next))
         ELSE TileAttrs(attrs, i + 1, st)

\* The loop over tile_node.children() of the tile parse.
RECURSIVE TileChildren(_, _, _)
TileChildren(nodes, i, st) ==
    IF i > Len(nodes) THEN Ok(st)
    ELSE IF nodes[i].name = "image"
    THEN Eval(Image_parse(nodes[i]),
              LAMBDA image :
                IF image.tag # "Ok" THEN image
                ELSE Eval([st EXCEPT !.result.image = Some(image.val)],
                          LAMBDA next : TileChildren(nodes, i + 1, next)))
    ELSE TileChildren(nodes, i + 1, st)

\* Tile::parse(child): the pair (id, data) of a tile element.
Tile_parse(tile_node) ==
    Eval(TileAttrs(tile_node.attrs, 1, [id |-> 0, result |-> DefaultTile]),
         LAMBDA r : IF r.tag # "Ok" THEN r ELSE TileChildren(tile_node.children, 1, r.val))

\* HashMap::insert: the value of an id already present is replaced.
Insert(tiles, id, data) == [k \in (DOMAIN tiles) \cup {id} |-> IF k = id THEN data ELSE tiles[k]]

\* The attribute loop of Tileset::parse_node.
RECURSIVE TilesetAttrs(_, _, _)
TilesetAttrs(attrs, i, self) ==
    IF i > Len(attrs) THEN Ok(self)
    ELSE LET a == attrs[i] IN
         IF a.name = "name"
         THEN Eval([self EXCEPT !.name = a.value],
                   LAMBDA next : TilesetAttrs(attrs, i + 1, next))
         ELSE IF a.name \in {"tilecount", "columns"}
         THEN LET r == parse_u32(a.value)
              IN  IF r.tag = "Err" THEN r
                  ELSE Eval(IF a.name = "tilecount" THEN [self EXCEPT !.tile_count = r.val]
                                                    ELSE [self EXCEPT !.columns = r.val],
                            LAMBDA next : TilesetAttrs(attrs, i + 1, next))
         ELSE TilesetAttrs(attrs, i + 1, self)

\* parse_image: the first image child of the tileset element, if any.
RECURSIVE parse_image_from(_, _)
parse_image_from(nodes, i) ==
    IF i > Len(nodes) THEN Ok(None)
    ELSE IF nodes[i].name = "image"
    THEN LET image == Image_parse(nodes[i])
         IN  IF image.tag # "Ok" THEN image ELSE Ok(Some(image.val))
    ELSE parse_image_from(nodes, i + 1)

parse_image(tileset_node) == parse_image_from(tileset_node.children, 1)

\* Populating ids 1..tile_count.
Populate_FromOne(self) ==
    [self EXCEPT !.tiles = [id \in 1..self.tile_count |-> DefaultTile]]

\* for id in 0..self.tile_count { self.tiles.insert(id, Tile::default()) }
Populate(self) ==
    [self EXCEPT !.tiles = [id \in (DOMAIN self.tiles) \cup (0..(self.tile_count - 1)) |->
                               IF id \in 0..(self.tile_count - 1) THEN DefaultTile
                               ELSE self.tiles[id]]]

\* "Process children": the loop over tileset_node.children().
RECURSIVE TilesetChildren(_, _, _)
TilesetChildren(nodes, i, self) ==
    IF i > Len(nodes) THEN Ok(self)
    ELSE IF nodes[i].name = "tile"
    THEN Eval(Tile_parse(nodes[i]),
              LAMBDA r :
                IF r.tag # "Ok" THEN r
                ELSE Eval([self EXCEPT !.tiles = Insert(@, r.val.id, r.val.result)],
                          LAMBDA next : TilesetChildren(nodes, i + 1, next)))
    ELSE TilesetChildren(nodes, i + 1, self)

\* Tileset::parse_node
Tileset_parse_node(self, tileset_node) ==
    Eval(TilesetAttrs(tileset_node.attrs, 1, self),
         LAMBDA attrs :
           IF attrs.tag # "Ok" THEN attrs
           ELSE Eval(parse_image(tileset_node),
                     LAMBDA image :
                       IF image.tag # "Ok" THEN image
                       ELSE TilesetChildren(tileset_node.children, 1,
                               IF image.val = None THEN attrs.val
                               ELSE Populate([attrs.val EXCEPT !.image = image.val]))))

\* Tileset::default()
DefaultTileset ==
    [name |-> "", tile_count |-> 0, columns |-> 0, image |-> None, tiles |-> <<>>]

\* The loop over root.children() of Tileset::parse_str.
RECURSIVE TilesetRoot(_, _, _)
TilesetRoot(nodes, i, result) ==
    IF i > Len(nodes) THEN Ok(result)
    ELSE IF nodes[i].name = "tileset"
    THEN Eval(Tileset_parse_node(result, nodes[i]),
              LAMBDA r : IF r.tag # "Ok" THEN r ELSE TilesetRoot(nodes, i + 1, r.val))
    ELSE TilesetRoot(nodes, i + 1, result)

\* Tileset::parse_str on the document tree roxmltree builds from xml_str.
Tileset_parse_str(root) == TilesetRoot(root.children, 1, DefaultTileset)

\* Tileset::tile
Tileset_tile(self, id) == IF id \in DOMAIN self.tiles THEN Some(self.tiles[id]) ELSE None

\* Tileset::tile_at; columns and coordinates of the model are far below 2^16,
\* where y * columns + x stays inside u32.
Tileset_tile_at(self, x, y) ==
    IF self.image = None THEN None
    ELSE IF x > self.columns THEN None
    ELSE Tileset_tile(self, y * self.columns + x)

----------------------------------------------------------------------------
(* layer.rs: the query surface *)

\* TileLayer::width
TileLayer_width(layer) == layer.width

\* TileLayer::height
TileLayer_height(layer) == layer.width

\* gid_at indexing the raster column by column.
gid_at_ColumnMajor(layer, x0, y0) ==
    LET x == CheckedSub(x0, layer.region.x)
        y == CheckedSub(y0, layer.region.y)
        region_width == AsI32(layer.region.width)
        region_height == AsI32(layer.region.height)
    IN  IF x.tag = "Panic" THEN x
        ELSE IF y.tag = "Panic" THEN y
        ELSE IF x.val < 0 \/ x.val >= region_width THEN Ok(GidNull)
        ELSE IF y.val < 0 \/ y.val >= region_height THEN Ok(GidNull)
        ELSE LET idx == x.val * region_height + y.val
             IN  IF idx >= Len(layer.tile_gids) THEN Panic("index out of bounds")
                 ELSE Ok(layer.tile_gids[idx + 1])

\* TileLayer::gid_at
gid_at(layer, x0, y0) ==
    LET x == CheckedSub(x0, layer.region.x)
        y == CheckedSub(y0, layer.region.y)
        region_width == AsI32(layer.region.width)
        region_height == AsI32(layer.region.height)
    IN  IF x.tag = "Panic" THEN x
        ELSE IF y.tag = "Panic" THEN y
        ELSE IF x.val < 0 \/ x.val >= region_width THEN Ok(GidNull)
        ELSE IF y.val < 0 \/ y.val >= region_height THEN Ok(GidNull)
        ELSE LET idx == y.val * region_width + x.val
             IN  IF idx >= Len(layer.tile_gids) THEN Panic("index out of bounds")
                 ELSE Ok(layer.tile_gids[idx + 1])

\* gids() taking the row length from the declared layer width.
TileLayer_gids_DeclaredWidth(layer) ==
    [x |-> 0, y |-> 0, idx |-> 0, width |-> layer.width,
     total |-> Len(layer.tile_gids), off_x |-> layer.region.x, off_y |-> layer.region.y]

\* TileLayer::gids
TileLayer_gids(layer) ==
    [x |-> 0, y |-> 0, idx |-> 0, width |-> layer.region.width,
     total |-> Len(layer.tile_gids), off_x |-> layer.region.x, off_y |-> layer.region.y]

\* Gids::next: the item returned (None, or Some of a triple) and the iterator afterwards.
Gids_next(layer, it) ==
    IF it.idx >= it.total THEN Ok([item |-> None, it |-> it])
    ELSE LET next_x == CheckedAdd(AsI32(it.x), it.off_x)
             next_y == CheckedAdd(AsI32(it.y), it.off_y)
         IN  IF next_x.tag = "Panic" THEN next_x
             ELSE IF next_y.tag = "Panic" THEN next_y
             ELSE LET next_gid == layer.tile_gids[it.idx + 1]
                      x1 == it.x + 1
                  IN  Ok([item |-> Some(<<next_x.val, next_y.val, next_gid>>),
                          it |-> [it EXCEPT
                                    !.idx = @ + 1,
                                    !.x = IF x1 = it.width THEN 0 ELSE x1,
                                    !.y = IF x1 = it.width THEN @ + 1 ELSE @]])

\* NonNullGids::next giving up at the first Null cell instead of skipping it.
RECURSIVE NonNullGids_next_StopAtNull(_, _)
NonNullGids_next_StopAtNull(layer, it) ==
    Eval(Gids_next(layer, it),
         LAMBDA r :
           IF r.tag = "Panic" THEN r
           ELSE IF r.val.item = None THEN r
           ELSE IF r.val.item[1][3] # GidNull THEN r
           ELSE Ok([item |-> None, it |-> r.val.it]))

\* NonNullGids::next: while let Some((x, y, gid)) = self.0.next() { if gid != Null { return } }
RECURSIVE NonNullGids_next(_, _)
NonNullGids_next(layer, it) ==
    Eval(Gids_next(layer, it),
         LAMBDA r :
           IF r.tag = "Panic" THEN r
           ELSE IF r.val.item = None THEN r
           ELSE IF r.val.item[1][3] # GidNull THEN r
           ELSE NonNullGids_next(layer, r.val.it))

----------------------------------------------------------------------------
(* Inputs: tileset entry lists, raw ids and layer documents *)

SeqsUpTo(S, n) == UNION {[1..k -> S] : k \in 0..n}

\* first_gid values; 0 is what TilesetEntry::parse leaves when firstgid is absent.
FirstGids == {0, 1, 50, 100}
EntryLists == SeqsUpTo(FirstGids, MaxEntries)

\* Raw ids as upper and lower 16-bit halves: every single flag, all flags, no
\* flag, and a bit just below the flags (0x0001_0000).
RawHi == {0, 1, 4096, 8192, 16384, 32768, 61440}
RawLo == {0, 1, 49, 50, 55, 100}
RawIds == {U32(hi, lo) : hi \in RawHi, lo \in RawLo}

\* Decimal tokens as they stand in a CSV payload, with the id each one denotes:
\* 1, 0, 3 after a line break, and 0x8000_0002 (2 flipped horizontally).
TokenTable ==
    << [text |-> <<"1">>, hi |-> 0, lo |-> 1],
       [text |-> <<"0">>, hi |-> 0, lo |-> 0],
       [text |-> <<"\n", "3">>, hi |-> 0, lo |-> 3],
       [text |-> <<"2", "1", "4", "7", "4", "8", "3", "6", "5", "0">>, hi |-> 32768, lo |-> 2] >>

\* n tokens of the table, cyclically from position off + 1.
Tokens(n, off) == [k \in 1..n |-> TokenTable[((off + k - 1) % Len(TokenTable)) + 1]]

IdsOf(tokens) == [k \in 1..Len(tokens) |-> U32(tokens[k].hi, tokens[k].lo)]

RECURSIVE CsvFrom(_, _)
CsvFrom(tokens, i) ==
    IF i > Len(tokens) THEN <<>>
    ELSE (IF i > 1 THEN <<",">> ELSE <<>>) \o tokens[i].text \o CsvFrom(tokens, i + 1)

\* The text of a data or chunk element holding these tokens, on a line of its own.
CsvText(tokens) ==
    IF tokens = <<>> THEN None ELSE Some(<<"\n">> \o CsvFrom(tokens, 1) \o <<"\n">>)

\* The tile layers of the maps the parser is run on (ctx.tilesets of such a map).
LayerTilesets == <<1, 3>>

\* A finite map's <layer width=W height=H><data encoding="csv">...</data></layer>.
FiniteLayerNode(W, H, tokens) ==
    Node("layer",
         <<Attr("id", 1), Attr("name", "below"), Attr("width", W), Attr("height", H)>>,
         None,
         <<Node("data", <<Attr("encoding", "csv")>>, CsvText(tokens), <<>>)>>)

\* Ids more or fewer than width*height.
CountDeltas == {-1, 0, 1}

FiniteDocsOf(W, H) ==
    {[node |-> FiniteLayerNode(W, H, Tokens(W * H + d, off)),
      ids |-> IdsOf(Tokens(W * H + d, off)),
      infinite |-> FALSE] :
        d \in {e \in CountDeltas : W * H + e >= 0}, off \in 0..(Len(TokenTable) - 1)}

FiniteDocs == UNION {FiniteDocsOf(W, H) : W \in 0..MaxDim, H \in 0..MaxDim}

\* Chunk placements: left of and above 0, at 0, right of and below 0.
ChunkOrigins == {<<-2, -1>>, <<0, 0>>, <<1, 1>>}
ChunkExtents == {<<1, 1>>, <<2, 1>>}
AttrOrders == {<<"x", "y", "width", "height">>, <<"width", "height", "x", "y">>}

ChunkAttrValue(name, origin, extent) ==
    CASE name = "x" -> origin[1] [] name = "y" -> origin[2]
      [] name = "width" -> extent[1] [] name = "height" -> extent[2]

\* <chunk x= y= width= height=>ids</chunk>, the attributes in the given order.
ChunkNode(origin, extent, order, tokens) ==
    Node("chunk",
         [i \in 1..Len(order) |-> Attr(order[i], ChunkAttrValue(order[i], origin, extent))],
         CsvText(tokens), <<>>)

ChunkChoices ==
    {[origin |-> o, extent |-> e, order |-> ord, tokens |-> Tokens(e[1] * e[2], 0)] :
        o \in ChunkOrigins, e \in ChunkExtents, ord \in AttrOrders}

\* An infinite map's <layer><data encoding="csv"><chunk/>...</data></layer>.
InfiniteLayerNode(cs) ==
    Node("layer",
         <<Attr("id", 1), Attr("name", "below"), Attr("width", 2), Attr("height", 2)>>,
         None,
         <<Node("data", <<Attr("encoding", "csv")>>, None,
                [i \in 1..Len(cs) |->
                    ChunkNode(cs[i].origin, cs[i].extent, cs[i].order, cs[i].tokens)])>>)

InfiniteDocs ==
    {[node |-> InfiniteLayerNode(cs),
      ids |-> [i \in 1..Len(cs) |-> IdsOf(cs[i].tokens)],
      infinite |-> TRUE] : cs \in SeqsUpTo(ChunkChoices, MaxChunks)}

Coords == (-MaxCoord..MaxCoord) \cup {MinI32, MaxI32}

\* Ways to cut W x H cells at the origin into chunks: one chunk, or two chunks
\* side by side or one above the other, listed in either order.
Rect(x, y, w, h) == [origin |-> <<x, y>>, extent |-> <<w, h>>]

Cuts(W, H) ==
    {<<Rect(0, 0, W, H)>>}
    \cup {<<Rect(0, 0, k, H), Rect(k, 0, W - k, H)>> : k \in 1..(W - 1)}
    \cup {<<Rect(k, 0, W - k, H), Rect(0, 0, k, H)>> : k \in 1..(W - 1)}
    \cup {<<Rect(0, 0, W, k), Rect(0, k, W, H - k)>> : k \in 1..(H - 1)}
    \cup {<<Rect(0, k, W, H - k), Rect(0, 0, W, k)>> : k \in 1..(H - 1)}

----------------------------------------------------------------------------
(* Inputs of the payload decoder: what a map editor writes into a data or   *)
(* chunk element, and damaged or unsupported variants of it.                *)

\* The base64 text of bytes[i..] (standard alphabet, padded).
RECURSIVE Base64Encode(_, _)
Base64Encode(bytes, i) ==
    LET rem == Len(bytes) - i + 1 IN
    IF rem <= 0 THEN <<>>
    ELSE LET b1 == bytes[i]
             b2 == IF rem >= 2 THEN bytes[i + 1] ELSE 0
             b3 == IF rem >= 3 THEN bytes[i + 2] ELSE 0
         IN  << B64Alphabet[(b1 \div 4) + 1],
                B64Alphabet[(b1 % 4) * 16 + (b2 \div 16) + 1],
                IF rem >= 2 THEN B64Alphabet[(b2 % 16) * 4 + (b3 \div 64) + 1] ELSE "=",
                IF rem >= 3 THEN B64Alphabet[(b3 % 64) + 1] ELSE "=" >>
             \o Base64Encode(bytes, i + 3)

\* Each id as 4 little-endian bytes.
RECURSIVE PackIds(_, _)
PackIds(ids, i) ==
    IF i > Len(ids) THEN <<>> ELSE to_le_bytes(ids[i]) \o PackIds(ids, i + 1)

StoredBlock(data) ==
    <<1, Len(data) % 256, Len(data) \div 256,
      255 - (Len(data) % 256), 255 - (Len(data) \div 256)>> \o data

\* gzip, zlib and zstd streams holding data uncompressed.
GzipStored(data) ==
    GzHeader \o StoredBlock(data)
        \o to_le_bytes(Crc32(data)) \o to_le_bytes(U32(0, Len(data)))

ZlibStored(data) ==
    LET sum == to_le_bytes(Adler32(data))
    IN  ZlibHeader \o StoredBlock(data) \o <<sum[4], sum[3], sum[2], sum[1]>>

ZstdRaw(data) ==
    LET header == 1 + 8 * Len(data)
    IN  ZstdMagic \o <<32, Len(data)>>
            \o <<header % 256, (header \div 256) % 256, header \div 65536>> \o data

Compress(compression, data) ==
    CASE compression = None -> data
      [] compression = Some("gzip") -> GzipStored(data)
      [] compression = Some("zlib") -> ZlibStored(data)
      [] compression = Some("zstd") -> ZstdRaw(data)

Compressions == {None, Some("gzip"), Some("zlib"), Some("zstd")}

\* Raw ids of binary payloads: 1, 0, 2 flipped horizontally, and 0x01020304.
PayloadIds == {U32(0, 1), U32(0, 0), U32(32768, 2), U32(258, 772)}

\* Bytes left over after the last whole id.
Tails == {<<>>, <<7>>, <<7, 8>>, <<7, 8, 9>>}

Payload(kind, text, encoding, compression, bytes, ids, tokens) ==
    [kind |-> kind, text |-> text, encoding |-> encoding, compression |-> compression,
     bytes |-> bytes, ids |-> ids, tokens |-> tokens]

\* base64 payloads: ids packed, a tail appended, compressed, encoded.
BinaryPayloads ==
    {Payload("binary", Base64Encode(Compress(c, PackIds(ids, 1) \o tail), 1),
             Some("base64"), c, PackIds(ids, 1) \o tail, ids, <<>>) :
        ids \in SeqsUpTo(PayloadIds, MaxIds), tail \in Tails, c \in Compressions}

\* A byte sequence with its first byte changed.
Damaged(bytes) == [bytes EXCEPT ![1] = (@ + 1) % 256]

\* Damaged payloads: a symbol outside the alphabet, missing padding, stray
\* bits in the last symbol, and compressed streams with a wrong first byte.
CorruptPayloads ==
    {Payload("corrupt", text, Some("base64"), c, <<>>, <<>>, <<>>) :
        text \in {<<"A", "Q", "*", "=">>, <<"A", "Q">>, <<"A", "R", "=", "=">>},
        c \in Compressions}
    \cup
    {Payload("corrupt", Base64Encode(Damaged(Compress(c, PackIds(ids, 1))), 1),
             Some("base64"), c, <<>>, <<>>, <<>>) :
        ids \in SeqsUpTo(PayloadIds, 1), c \in Compressions \ {None}}


\* Tokens of CSV payloads: decimal numbers (bare, padded with whitespace, the
\* largest u32), and tokens that are no such number.
CsvTokens ==
    { [text |-> <<"1">>, kind |-> "number", id |-> U32(0, 1)],
      [text |-> <<" ", "7", "\n">>, kind |-> "number", id |-> U32(0, 7)],
      [text |-> <<"4", "2", "9", "4", "9", "6", "7", "2", "9", "5">>,
       kind |-> "number", id |-> U32(65535, 65535)],
      [text |-> <<"4", "2", "9", "4", "9", "6", "7", "2", "9", "6">>,
       kind |-> "beyond u32", id |-> U32(0, 0)],
      [text |-> <<>>, kind |-> "empty", id |-> U32(0, 0)],
      [text |-> <<" ">>, kind |-> "empty", id |-> U32(0, 0)],
      [text |-> <<"-", "1">>, kind |-> "minus sign", id |-> U32(0, 1)],
      [text |-> <<"+", "1">>, kind |-> "plus sign", id |-> U32(0, 1)],
      [text |-> <<"1", "a">>, kind |-> "letters", id |-> U32(0, 0)],
      [text |-> <<"1", " ", "2">>, kind |-> "letters", id |-> U32(0, 0)] }

CsvPayloads ==
    {Payload("csv", CsvFrom(tokens, 1), Some("csv"), None, <<>>, <<>>, tokens) :
        tokens \in SeqsUpTo(CsvTokens, MaxTokens) \ {<<>>}}

\* (encoding, compression) pairs outside the five parse_tile_gids decodes.
UnsupportedPairs ==
    { <<None, None>>, <<None, Some("gzip")>>, <<Some(""), None>>,
      <<Some("csv"), Some("gzip")>>, <<Some("csv"), Some("zlib")>>,
      <<Some("csv"), Some("zstd")>>, <<Some("base64"), Some("unknown")>>,
      <<Some("base64"), Some("")>>, <<Some("xml"), None>>, <<Some("json"), Some("zstd")>> }

UnsupportedPayloads ==
    {Payload("unsupported", text, pair[1], pair[2], <<>>, <<>>, <<>>) :
        text \in {<<"1", ",", "0">>, <<"A", "Q", "A", "A", "A", "A", "=", "=">>},
        pair \in UnsupportedPairs}

Payloads == BinaryPayloads \cup CorruptPayloads \cup CsvPayloads \cup UnsupportedPayloads

\* What the first reads of a decompressing reader may return.
ShortReads == SeqsUpTo(1..4, MaxShortReads)

----------------------------------------------------------------------------
(* Layer documents that are not what a map editor writes: unsupported       *)
(* encodings, missing pieces, and extents too large for a raster.           *)

\* The encoding and compression attributes of a data element (an absent one
\* is not written).
DataAttrs(pair) ==
    (IF pair[1] = None THEN <<>> ELSE <<Attr("encoding", pair[1][1])>>)
        \o (IF pair[2] = None THEN <<>> ELSE <<Attr("compression", pair[2][1])>>)

LayerNode(W, H, children) ==
    Node("layer",
         <<Attr("id", 1), Attr("name", "below"), Attr("width", W), Attr("height", H)>>,
         None, children)

ChunkWithText(origin, extent, text) ==
    Node("chunk",
         <<Attr("x", origin[1]), Attr("y", origin[2]),
           Attr("width", extent[1]), Attr("height", extent[2])>>,
         text, <<>>)

\* The id 1 as text in the given encoding.
OneIdText(encoding) ==
    IF encoding = Some("base64") THEN Some(<<"A", "Q", "A", "A", "A", "A", "=", "=">>)
    ELSE Some(<<"1">>)

Doc(node, infinite) == [node |-> node, ids |-> <<>>, infinite |-> infinite]

\* Data sections with an unsupported (encoding, compression) pair: a finite
\* layer, and infinite layers of 0..MaxChunks chunks side by side.
MalformedDocs ==
    {Doc(LayerNode(1, 1, <<Node("data", DataAttrs(pair), OneIdText(pair[1]), <<>>)>>), FALSE) :
        pair \in UnsupportedPairs}
    \cup
    {Doc(LayerNode(1, 1,
            <<Node("data", DataAttrs(pair), None,
                   [k \in 1..n |-> ChunkWithText(<<k - 1, 0>>, <<1, 1>>, OneIdText(pair[1]))])>>),
         TRUE) :
        pair \in UnsupportedPairs, n \in 0..MaxChunks}

GoodPairs == {<<Some("csv"), None>>, <<Some("base64"), None>>}

\* Layers without a data element (childless, or with a properties element
\* only), a finite data element without text, chunks without text.
StructuralDocs ==
    {Doc(LayerNode(1, 1, children), infinite) :
        children \in {<<>>, <<Node("properties", <<>>, None, <<>>)>>}, infinite \in BOOLEAN}
    \cup
    {Doc(LayerNode(1, 1, <<Node("data", DataAttrs(pair), None, <<>>)>>), FALSE) :
        pair \in GoodPairs}
    \cup
    UNION {{Doc(LayerNode(1, 1,
                   <<Node("data", DataAttrs(pair), None,
                          [k \in 1..n |->
                              ChunkWithText(<<k - 1, 0>>, <<1, 1>>,
                                            IF k = j THEN None ELSE OneIdText(pair[1]))])>>),
                TRUE) :
               pair \in GoodPairs, j \in 1..n} : n \in 1..MaxChunks}

\* A side of 2^16 cells: 2^32 cells in the square.
HugeSide == 65536

\* A finite layer declared, and an infinite layer with a chunk declared,
\* HugeSide by HugeSide, holding a single id.
HugeDocs ==
    {Doc(LayerNode(HugeSide, HugeSide,
            <<Node("data", DataAttrs(pair), OneIdText(pair[1]), <<>>)>>), FALSE) :
        pair \in GoodPairs}
    \cup
    {Doc(LayerNode(1, 1,
            <<Node("data", DataAttrs(pair), None,
                   <<ChunkWithText(origin, <<HugeSide, HugeSide>>, OneIdText(pair[1]))>>)>>),
         TRUE) :
        pair \in GoodPairs, origin \in ChunkOrigins}

FaultyDocs == MalformedDocs \cup StructuralDocs \cup HugeDocs

----------------------------------------------------------------------------
(* The same content twice: a finite layer, and the chunks of an infinite    *)
(* layer at the same coordinates.                                           *)

\* The tokens of the row-major W-wide content that fall into the rectangle,
\* row by row.
TokensIn(tokens, W, rect) ==
    [k \in 1..(rect.extent[1] * rect.extent[2]) |->
        tokens[((rect.origin[2] + ((k - 1) \div rect.extent[1])) * W)
               + rect.origin[1] + ((k - 1) % rect.extent[1]) + 1]]

\* The text of a chunk holding these tokens in the given encoding.
ChunkText(tokens, encoding) ==
    IF encoding = Some("base64")
    THEN Some(Base64Encode(PackIds(IdsOf(tokens), 1), 1))
    ELSE CsvText(tokens)

\* <layer><data encoding=...><chunk/>...</data></layer> holding the content cut
\* into the rectangles, each chunk at the place of its rectangle.
TwinLayerNode(W, H, tokens, cut, encoding) ==
    Node("layer",
         <<Attr("id", 1), Attr("name", "below"), Attr("width", W), Attr("height", H)>>,
         None,
         <<Node("data", DataAttrs(<<encoding, None>>), None,
                [i \in 1..Len(cut) |->
                    ChunkWithText(cut[i].origin, cut[i].extent,
                                  ChunkText(TokensIn(tokens, W, cut[i]), encoding))])>>)

TwinEncodings == {Some("csv"), Some("base64")}

\* A finite layer of W x H ids and its chunked twin.
TwinDocs ==
    UNION {{[node |-> FiniteLayerNode(W, H, Tokens(W * H, off)),
             ids |-> IdsOf(Tokens(W * H, off)),
             twin |-> TwinLayerNode(W, H, Tokens(W * H, off), cut, encoding)] :
               off \in 0..(Len(TokenTable) - 1), cut \in Cuts(W, H),
               encoding \in TwinEncodings} :
           W \in 1..MaxDim, H \in 1..MaxDim}

----------------------------------------------------------------------------
(* Map documents: two tileset entries and one tile layer whose data section *)
(* is sound or corrupt, at the top level or inside nested groups, alone or  *)
(* next to a sound layer.                                                   *)

\* How deep the layer is nested in groups.
MaxDepth == 2

\* The id 1 as the text of a data section with the given pair.
SoundText(pair) ==
    IF pair[1] = Some("csv") THEN Some(<<"1">>)
    ELSE Some(Base64Encode(Compress(IF pair[2] \in Compressions THEN pair[2] ELSE None,
                                    <<1, 0, 0, 0>>), 1))

\* Data sections: what is wrong with them, their attributes and their text.
DataSections ==
    { [kind |-> "sound", pair |-> <<Some("csv"), None>>, text |-> Some(<<"1">>)],
      [kind |-> "sound", pair |-> <<Some("base64"), None>>,
       text |-> SoundText(<<Some("base64"), None>>)],
      [kind |-> "sound", pair |-> <<Some("base64"), Some("zlib")>>,
       text |-> SoundText(<<Some("base64"), Some("zlib")>>)],
      [kind |-> "symbol outside the alphabet", pair |-> <<Some("base64"), None>>,
       text |-> Some(<<"A", "Q", "*", "=">>)],
      [kind |-> "partial group", pair |-> <<Some("base64"), None>>,
       text |-> Some(<<"B", "w", "=", "=">>)],
      [kind |-> "damaged stream", pair |-> <<Some("base64"), Some("gzip")>>,
       text |-> Some(Base64Encode(Damaged(GzipStored(<<1, 0, 0, 0>>)), 1))],
      [kind |-> "bad token", pair |-> <<Some("csv"), None>>, text |-> Some(<<"1", "a">>)],
      [kind |-> "unsupported pair", pair |-> <<Some("base64"), Some("unknown")>>,
       text |-> Some(<<"A", "Q", "A", "A", "A", "A", "=", "=">>)],
      [kind |-> "no text", pair |-> <<Some("csv"), None>>, text |-> None] }

\* Where the section sits: the text of a finite layer's data element, of the
\* only chunk, or of the second of two chunks.
Shapes == {"finite", "only chunk", "second chunk"}

\* The tile layer holding the section.
SectionLayer(section, shape) ==
    LayerNode(1, 1,
        <<Node("data", DataAttrs(section.pair),
               IF shape = "finite" THEN section.text ELSE None,
               IF shape = "finite" THEN <<>>
               ELSE IF shape = "only chunk"
               THEN <<ChunkWithText(<<0, 0>>, <<1, 1>>, section.text)>>
               ELSE <<ChunkWithText(<<0, 0>>, <<1, 1>>, SoundText(section.pair)),
                      ChunkWithText(<<1, 0>>, <<1, 1>>, section.text)>>)>>)

\* The layers wrapped in depth nested groups.
RECURSIVE Nest(_, _)
Nest(layers, depth) ==
    IF depth = 0 THEN layers
    ELSE <<Node("group", <<Attr("id", 10 + depth), Attr("name", "folder")>>, None,
                Nest(layers, depth - 1))>>

\* The sound layers around the section's layer.
Neighbours == {"alone", "after a sound layer", "before a sound layer"}

MapDocument(section, shape, depth, place) ==
    LET target == SectionLayer(section, shape)
        sound == SectionLayer([kind |-> "sound", pair |-> <<Some("csv"), None>>,
                               text |-> Some(<<"1">>)],
                              IF shape = "finite" THEN "finite" ELSE "only chunk")
        layers == IF place = "alone" THEN <<target>>
                  ELSE IF place = "after a sound layer" THEN <<sound, target>>
                  ELSE <<target, sound>>
    IN  [root |-> Node("", <<>>, None,
                    <<Node("map",
                           <<Attr("version", "1.10"), Attr("orientation", "orthogonal"),
                             Attr("infinite", IF shape = "finite" THEN "0" ELSE "1")>>,
                           None,
                           <<Node("tileset", <<Attr("firstgid", 1), Attr("source", "a.tsx")>>,
                                  None, <<>>),
                             Node("tileset", <<Attr("firstgid", 3), Attr("source", "b.tsx")>>,
                                  None, <<>>)>>
                               \o Nest(layers, depth))>>),
         section |-> section.kind, shape |-> shape, depth |-> depth, place |-> place]

MapDocuments ==
    {MapDocument(section, shape, depth, place) :
        section \in DataSections, shape \in Shapes, depth \in 0..MaxDepth, place \in Neighbours}

----------------------------------------------------------------------------
(* Map documents whose tile layers hold one id of the second or a later     *)
(* tileset; the tileset elements stand before the layers, and in some       *)
(* documents one more stands after them.                                    *)

\* The first gids of the tileset elements before the layers, in document order.
EntryOrders == {<<1>>, <<1, 3>>, <<3, 1>>, <<1, 3, 5>>}

\* The raw id in each layer's data, as a CSV token.
StableIds == {[text |-> <<"2">>, id |-> U32(0, 2)], [text |-> <<"4">>, id |-> U32(0, 4)],
              [text |-> <<"6">>, id |-> U32(0, 6)]}

TilesetNode(first_gid) ==
    Node("tileset", <<Attr("firstgid", first_gid), Attr("source", "tiles.tsx")>>, None, <<>>)

StableDocument(first_gids, token, depth, place, late) ==
    LET layer == LayerNode(1, 1, <<Node("data", <<Attr("encoding", "csv")>>,
                                        Some(token.text), <<>>)>>)
        layers == IF place = "alone" THEN <<layer>>
                  ELSE IF place = "after a sound layer" THEN <<layer, Nest(<<layer>>, 1)[1]>>
                  ELSE <<Nest(<<layer>>, 1)[1], layer>>
    IN  [root |-> Node("", <<>>, None,
                    <<Node("map", <<Attr("version", "1.10"), Attr("infinite", "0")>>, None,
                           [k \in 1..Len(first_gids) |-> TilesetNode(first_gids[k])]
                               \o Nest(layers, depth)
                               \o (IF late THEN <<TilesetNode(4)>> ELSE <<>>))>>),
         first_gids |-> first_gids, id |-> token.id, depth |-> depth, late |-> late]

StableDocuments ==
    {StableDocument(first_gids, token, depth, place, late) :
        first_gids \in EntryOrders, token \in StableIds, depth \in 0..MaxDepth,
        place \in Neighbours, late \in BOOLEAN}

----------------------------------------------------------------------------
(* Tile layers with custom properties: a properties element before or       *)
(* after the data element.                                                  *)

PropertiesNode ==
    Node("properties", <<>>, None,
         <<Node("property", <<Attr("name", "solid"), Attr("value", "true")>>, None, <<>>)>>)

PropertiesPlaces == {"none", "before data", "after data"}

\* The layer with the properties element put among its children.
WithProperties(node, place) ==
    [node EXCEPT !.children = IF place = "before data" THEN <<PropertiesNode>> \o @
                              ELSE IF place = "after data" THEN @ \o <<PropertiesNode>>
                              ELSE @]

\* Finite layers of W x H ids, and infinite layers of one W x H chunk at the
\* origin, with and without properties.
PropertiesDocs ==
    UNION {{[node |-> WithProperties(
                        IF infinite
                        THEN InfiniteLayerNode(<<[origin |-> <<0, 0>>, extent |-> <<W, H>>,
                                                  order |-> <<"x", "y", "width", "height">>,
                                                  tokens |-> Tokens(W * H, off)]>>)
                        ELSE FiniteLayerNode(W, H, Tokens(W * H, off)),
                        place),
             ids |-> IdsOf(Tokens(W * H, off)),
             infinite |-> infinite] :
               off \in 0..(Len(TokenTable) - 1), place \in PropertiesPlaces,
               infinite \in BOOLEAN} :
           W \in 1..MaxDim, H \in 1..MaxDim}

----------------------------------------------------------------------------
(* Infinite layers of one or two chunks of one or two rows and columns,     *)
(* apart, side by side or overlapping.                                      *)

PlacedOrigins == {<<-1, -1>>, <<0, 0>>, <<1, 0>>}
PlacedExtents == {<<1, 1>>, <<2, 1>>, <<1, 2>>, <<2, 2>>}

\* Chunks holding exactly width * height ids, the ids taken from the table at
\* two different places.
PlacedChunks ==
    {[origin |-> o, extent |-> e, order |-> <<"x", "y", "width", "height">>,
      tokens |-> Tokens(e[1] * e[2], off)] :
        o \in PlacedOrigins, e \in PlacedExtents, off \in {0, 1}}

PlacedDocs ==
    {[node |-> InfiniteLayerNode(cs),
      ids |-> [i \in 1..Len(cs) |-> IdsOf(cs[i].tokens)],
      infinite |-> TRUE] :
        cs \in {<<a>> : a \in PlacedChunks} \cup {<<a, b>> : a, b \in PlacedChunks}}

----------------------------------------------------------------------------
(* Infinite layers with a chunk whose text holds one id fewer or one id     *)
(* more than its width * height, alone or beside a chunk that holds as many.*)

\* By how many ids the chunk's text differs from its declared extent.
ShortBy == {-1, 1}

ShortChunks ==
    {[origin |-> o, extent |-> e, order |-> <<"x", "y", "width", "height">>,
      tokens |-> Tokens((e[1] * e[2]) + d, 0)] :
        o \in PlacedOrigins, e \in PlacedExtents, d \in ShortBy}

\* A chunk of one id, as many as it declares.
FullChunk ==
    [origin |-> <<3, 3>>, extent |-> <<1, 1>>, order |-> <<"x", "y", "width", "height">>,
     tokens |-> Tokens(1, 0)]

ShortDocs ==
    {[node |-> InfiniteLayerNode(cs),
      ids |-> [i \in 1..Len(cs) |-> IdsOf(cs[i].tokens)],
      infinite |-> TRUE] :
        cs \in UNION {{<<a>>, <<FullChunk, a>>, <<a, FullChunk>>} : a \in ShortChunks}}

----------------------------------------------------------------------------
(* Tileset documents: based on one image or a collection of images, with    *)
(* tile elements for some ids.                                              *)

MaxTileCount == 3
MaxColumns == 2

\* Ids of tile elements and of lookups: every id of the largest tileset and
\* one beyond.
TileIds == 0..MaxTileCount

\* What a tile element says: its id and the x it gives the tile.
TileElements == {[id |-> id, x |-> x] : id \in TileIds, x \in {7, 8}}

\* No, one or two tile elements.
TileElementLists ==
    {<<>>} \cup {<<a>> : a \in TileElements} \cup {<<a, b>> : a, b \in TileElements}

\* Where the tileset's image child stands among its children, if it has one.
ImagePlaces == {"none", "first", "last"}

\* <tile id= x=/>; in a collection the tile carries its own image.
TileNode(e, place) ==
    Node("tile", <<Attr("id", e.id), Attr("x", e.x)>>, None,
         IF place = "none"
         THEN <<Node("image", <<Attr("source", "tile.png"), Attr("width", 16)>>, None, <<>>)>>
         ELSE <<>>)

TilesetDocument(place, tile_count, columns, elements) ==
    LET image == <<Node("image", <<Attr("source", "tiles.png"), Attr("width", 64)>>,
                        None, <<>>)>>
        tiles == [k \in 1..Len(elements) |-> TileNode(elements[k], place)]
    IN  [root |-> Node("", <<>>, None,
                    <<Node("tileset",
                           <<Attr("name", "tiles"), Attr("tilecount", tile_count),
                             Attr("columns", columns)>>,
                           None,
                           IF place = "first" THEN image \o tiles
                           ELSE IF place = "last" THEN tiles \o image
                           ELSE tiles)>>),
         image |-> place # "none", tile_count |-> tile_count, columns |-> columns,
         elements |-> elements]

TilesetDocuments ==
    {TilesetDocument(place, tile_count, columns, elements) :
        place \in ImagePlaces, tile_count \in 0..MaxTileCount, columns \in 1..MaxColumns,
        elements \in TileElementLists}

----------------------------------------------------------------------------
(* The state machine *)

NoCall == [op |-> "none"]
NotParsed == [tag |-> "None"]

InitResolve ==
    /\ ctx \in [tilesets : EntryLists, infinite : {FALSE}]
    /\ overflow_checks = FALSE
    /\ short_reads = <<>>
    /\ document = None
    /\ twin = None
    /\ tileset = NotParsed
    /\ layer_node = None
    /\ src_ids = <<>>
    /\ parsed = NotParsed
    /\ call = NoCall
    /\ gids = None
    /\ yielded = <<>>
    /\ runs = 0

InitLayer ==
    /\ \E d \in FiniteDocs \cup InfiniteDocs :
          /\ layer_node = d.node
          /\ src_ids = d.ids
          /\ ctx = [tilesets |-> LayerTilesets, infinite |-> d.infinite]
    /\ overflow_checks \in BOOLEAN
    /\ short_reads = <<>>
    /\ document = None
    /\ twin = None
    /\ tileset = NotParsed
    /\ parsed = NotParsed
    /\ call = NoCall
    /\ gids = None
    /\ yielded = <<>>
    /\ runs = 0

InitFaultyLayer ==
    /\ \E d \in FaultyDocs :
          /\ layer_node = d.node
          /\ src_ids = d.ids
          /\ ctx = [tilesets |-> LayerTilesets, infinite |-> d.infinite]
    /\ overflow_checks \in BOOLEAN
    /\ short_reads = <<>>
    /\ document = None
    /\ twin = None
    /\ tileset = NotParsed
    /\ parsed = NotParsed
    /\ call = NoCall
    /\ gids = None
    /\ yielded = <<>>
    /\ runs = 0

InitDecode ==
    /\ ctx = [tilesets |-> LayerTilesets, infinite |-> FALSE]
    /\ overflow_checks = FALSE
    /\ short_reads \in ShortReads
    /\ document = None
    /\ twin = None
    /\ tileset = NotParsed
    /\ layer_node = None
    /\ src_ids = <<>>
    /\ parsed = NotParsed
    /\ call = NoCall
    /\ gids = None
    /\ yielded = <<>>
    /\ runs = 0

InitTwin ==
    /\ \E d \in TwinDocs :
          /\ layer_node = d.node
          /\ src_ids = d.ids
          /\ twin = Some([node |-> d.twin, parsed |-> NotParsed, call |-> NoCall])
    /\ ctx = [tilesets |-> LayerTilesets, infinite |-> FALSE]
    /\ overflow_checks \in BOOLEAN
    /\ short_reads = <<>>
    /\ document = None
    /\ tileset = NotParsed
    /\ parsed = NotParsed
    /\ call = NoCall
    /\ gids = None
    /\ yielded = <<>>
    /\ runs = 0

\* TileLayer::parse(node, ctx) on the twin, as a layer of an infinite map with
\* the same tilesets, before any query
ParseTwin ==
    /\ twin # None
    /\ twin[1].parsed = NotParsed
    /\ call = NoCall
    /\ twin' = Some([twin[1] EXCEPT
                       !.parsed = TileLayer_parse(twin[1].node,
                                                  [ctx EXCEPT !.infinite = TRUE])])
    /\ UNCHANGED <<ctx, overflow_checks, short_reads, document, tileset, layer_node, src_ids, parsed, call, gids, yielded, runs>>

\* gid_at(x, y) on the parsed twin, at the coordinate last read from the
\* parsed layer
GidAtTwin ==
    /\ twin # None
    /\ twin[1].parsed.tag = "Ok"
    /\ twin[1].call = NoCall
    /\ call.op = "gid_at"
    /\ twin' = Some([twin[1] EXCEPT
                       !.call = [op |-> "gid_at", x |-> call.x, y |-> call.y,
                                 ret |-> gid_at(twin[1].parsed.val, call.x, call.y)]])
    /\ UNCHANGED <<ctx, overflow_checks, short_reads, document, tileset, layer_node, src_ids, parsed, call, gids, yielded, runs>>

InitPlaced ==
    /\ \E d \in PlacedDocs :
          /\ layer_node = d.node
          /\ src_ids = d.ids
          /\ ctx = [tilesets |-> LayerTilesets, infinite |-> d.infinite]
    /\ overflow_checks \in BOOLEAN
    /\ short_reads = <<>>
    /\ document = None
    /\ twin = None
    /\ tileset = NotParsed
    /\ parsed = NotParsed
    /\ call = NoCall
    /\ gids = None
    /\ yielded = <<>>
    /\ runs = 0

InitStable ==
    /\ ctx = [tilesets |-> <<>>, infinite |-> FALSE]
    /\ overflow_checks \in BOOLEAN
    /\ short_reads = <<>>
    /\ document \in {Some(d) : d \in StableDocuments}
    /\ twin = None
    /\ tileset = NotParsed
    /\ layer_node = None
    /\ src_ids = <<>>
    /\ parsed = NotParsed
    /\ call = NoCall
    /\ gids = None
    /\ yielded = <<>>
    /\ runs = 0

InitProperties ==
    /\ \E d \in PropertiesDocs :
          /\ layer_node = d.node
          /\ src_ids = d.ids
          /\ ctx = [tilesets |-> LayerTilesets, infinite |-> d.infinite]
    /\ overflow_checks \in BOOLEAN
    /\ short_reads = <<>>
    /\ document = None
    /\ twin = None
    /\ tileset = NotParsed
    /\ parsed = NotParsed
    /\ call = NoCall
    /\ gids = None
    /\ yielded = <<>>
    /\ runs = 0

InitShort ==
    /\ \E d \in ShortDocs :
          /\ layer_node = d.node
          /\ src_ids = d.ids
          /\ ctx = [tilesets |-> LayerTilesets, infinite |-> d.infinite]
    /\ overflow_checks \in BOOLEAN
    /\ short_reads = <<>>
    /\ document = None
    /\ twin = None
    /\ tileset = NotParsed
    /\ parsed = NotParsed
    /\ call = NoCall
    /\ gids = None
    /\ yielded = <<>>
    /\ runs = 0

InitMap ==
    /\ ctx = [tilesets |-> <<>>, infinite |-> FALSE]
    /\ overflow_checks \in BOOLEAN
    /\ short_reads = <<>>
    /\ document \in {Some(d) : d \in MapDocuments}
    /\ twin = None
    /\ tileset = NotParsed
    /\ layer_node = None
    /\ src_ids = <<>>
    /\ parsed = NotParsed
    /\ call = NoCall
    /\ gids = None
    /\ yielded = <<>>
    /\ runs = 0

InitTileset ==
    /\ ctx = [tilesets |-> <<>>, infinite |-> FALSE]
    /\ overflow_checks = FALSE
    /\ short_reads = <<>>
    /\ document \in {Some(d) : d \in TilesetDocuments}
    /\ twin = None
    /\ tileset = NotParsed
    /\ layer_node = None
    /\ src_ids = <<>>
    /\ parsed = NotParsed
    /\ call = NoCall
    /\ gids = None
    /\ yielded = <<>>
    /\ runs = 0

\* Tileset::parse_str(xml_str) on the document
ParseTileset ==
    /\ document # None
    /\ tileset = NotParsed
    /\ tileset' = Tileset_parse_str(document[1].root)
    /\ UNCHANGED <<ctx, overflow_checks, short_reads, document, twin, layer_node, src_ids, parsed, call, gids, yielded, runs>>

\* One call of tileset.tile(id) on the parsed tileset
Tile ==
    /\ tileset.tag = "Ok"
    /\ call = NoCall
    /\ \E id \in TileIds :
          call' = [op |-> "tile", id |-> id, ret |-> Tileset_tile(tileset.val, id)]
    /\ UNCHANGED <<ctx, overflow_checks, short_reads, document, twin, tileset, layer_node, src_ids, parsed, gids, yielded, runs>>

\* One call of tileset.tile_at(x, y) on the parsed tileset
TileAt ==
    /\ tileset.tag = "Ok"
    /\ call = NoCall
    /\ \E x \in 0..(MaxColumns + 1), y \in 0..MaxTileCount :
          call' = [op |-> "tile_at", x |-> x, y |-> y,
                   ret |-> Tileset_tile_at(tileset.val, x, y)]
    /\ UNCHANGED <<ctx, overflow_checks, short_reads, document, twin, tileset, layer_node, src_ids, parsed, gids, yielded, runs>>

\* Map::parse_str(xml_str) on the document
ParseStr ==
    /\ document # None
    /\ call = NoCall
    /\ call' = [op |-> "parse_str", ret |-> Map_parse_str(document[1].root)]
    /\ UNCHANGED <<ctx, overflow_checks, short_reads, document, twin, tileset, layer_node, src_ids, parsed, gids, yielded, runs>>

\* One call of parse_tile_gids(layer_data, encoding, compression)
Decode ==
    /\ call = NoCall
    /\ \E p \in Payloads :
          call' = [op |-> "parse_tile_gids", payload |-> p,
                   ret |-> parse_tile_gids(p.text, p.encoding, p.compression)]
    /\ UNCHANGED <<ctx, overflow_checks, short_reads, document, twin, tileset, layer_node, src_ids, parsed, gids, yielded, runs>>

\* One call of Gid::resolve(gid, entries)
Resolve ==
    /\ call = NoCall
    /\ \E gid \in RawIds :
          call' = [op |-> "resolve", gid |-> gid, ret |-> resolve(gid, ctx.tilesets)]
    /\ UNCHANGED <<ctx, overflow_checks, short_reads, document, twin, tileset, layer_node, src_ids, parsed, gids, yielded, runs>>

\* One call of map.tile_location_of(gid) on a map with the entries ctx.tilesets
TileLocationOf ==
    /\ call = NoCall
    /\ \E gid \in RawIds :
          call' = [op |-> "tile_location_of", gid |-> gid,
                   ret |-> tile_location_of(ctx.tilesets, gid)]
    /\ UNCHANGED <<ctx, overflow_checks, short_reads, document, twin, tileset, layer_node, src_ids, parsed, gids, yielded, runs>>

\* TileLayer::parse(layer_node, ctx)
Parse ==
    /\ parsed = NotParsed
    /\ parsed' = TileLayer_parse(layer_node, ctx)
    /\ UNCHANGED <<ctx, overflow_checks, short_reads, document, twin, tileset, layer_node, src_ids, call, gids, yielded, runs>>

\* layer.width() on the parsed layer
Width ==
    /\ parsed.tag = "Ok"
    /\ call = NoCall
    /\ call' = [op |-> "width", ret |-> TileLayer_width(parsed.val)]
    /\ UNCHANGED <<ctx, overflow_checks, short_reads, document, twin, tileset, layer_node, src_ids, parsed, gids, yielded, runs>>

\* layer.height() on the parsed layer
Height ==
    /\ parsed.tag = "Ok"
    /\ call = NoCall
    /\ call' = [op |-> "height", ret |-> TileLayer_height(parsed.val)]
    /\ UNCHANGED <<ctx, overflow_checks, short_reads, document, twin, tileset, layer_node, src_ids, parsed, gids, yielded, runs>>

\* One call of layer.gid_at(x, y) on the parsed layer
GidAt ==
    /\ parsed.tag = "Ok"
    /\ call = NoCall
    /\ \E x \in Coords, y \in Coords :
          call' = [op |-> "gid_at", x |-> x, y |-> y, ret |-> gid_at(parsed.val, x, y)]
    /\ UNCHANGED <<ctx, overflow_checks, short_reads, document, twin, tileset, layer_node, src_ids, parsed, gids, yielded, runs>>

\* layer.gids() on the parsed layer: a fresh iterator
Gids ==
    /\ parsed.tag = "Ok"
    /\ runs < MaxRuns
    /\ gids' = Some(TileLayer_gids(parsed.val))
    /\ yielded' = <<>>
    /\ runs' = runs + 1
    /\ call' = [op |-> "gids"]
    /\ UNCHANGED <<ctx, overflow_checks, short_reads, document, twin, tileset, layer_node, src_ids, parsed>>

\* next() on the iterator
GidsNext ==
    /\ gids # None
    /\ ~(call.op = "next" /\ call.ret.tag = "Panic")
    /\ LET r == Gids_next(parsed.val, gids[1])
       IN  /\ call' = [op |-> "next",
                       ret |-> IF r.tag = "Panic" THEN r ELSE Ok(r.val.item)]
           /\ gids' = IF r.tag = "Panic" THEN gids ELSE Some(r.val.it)
           /\ yielded' = IF r.tag = "Ok" /\ r.val.item # None
                         THEN Append(yielded, r.val.item[1]) ELSE yielded
    /\ UNCHANGED <<ctx, overflow_checks, short_reads, document, twin, tileset, layer_node, src_ids, parsed, runs>>

\* layer.gids().non_null() on the parsed layer: a fresh filtering iterator
NonNull ==
    /\ parsed.tag = "Ok"
    /\ runs < MaxRuns
    /\ gids' = Some(TileLayer_gids(parsed.val))
    /\ yielded' = <<>>
    /\ runs' = runs + 1
    /\ call' = [op |-> "non_null"]
    /\ UNCHANGED <<ctx, overflow_checks, short_reads, document, twin, tileset, layer_node, src_ids, parsed>>

\* next() on the filtering iterator
NonNullNext ==
    /\ gids # None
    /\ ~(call.op = "non_null_next" /\ call.ret.tag = "Panic")
    /\ LET r == NonNullGids_next(parsed.val, gids[1])
       IN  /\ call' = [op |-> "non_null_next",
                       ret |-> IF r.tag = "Panic" THEN r ELSE Ok(r.val.item)]
           /\ gids' = IF r.tag = "Panic" THEN gids ELSE Some(r.val.it)
           /\ yielded' = IF r.tag = "Ok" /\ r.val.item # None
                         THEN Append(yielded, r.val.item[1]) ELSE yielded
    /\ UNCHANGED <<ctx, overflow_checks, short_reads, document, twin, tileset, layer_node, src_ids, parsed, runs>>

NextResolve == Resolve
NextDecode == Decode
NextMap == ParseStr
NextQueries == Parse \/ GidAt \/ Gids \/ GidsNext
NextTileset == ParseTileset \/ Tile \/ TileAt
NextAccessors == Parse \/ Width \/ Height
NextLocation == TileLocationOf
NextTwin == Parse \/ ParseTwin \/ GidAt \/ GidAtTwin
NextFaultyLayer == Parse
NextLayer == Parse \/ GidAt
NextGids == Parse \/ Gids \/ GidsNext

SpecResolve == InitResolve /\ [][NextResolve]_vars
SpecDecode == InitDecode /\ [][NextDecode]_vars
SpecMap == InitMap /\ [][NextMap]_vars
SpecShort == InitShort /\ [][NextFaultyLayer]_vars
SpecProperties == InitProperties /\ [][NextFaultyLayer]_vars
SpecStable == InitStable /\ [][NextMap]_vars
SpecQueries == InitLayer /\ [][NextQueries]_vars
SpecPlaced == InitPlaced /\ [][NextLayer]_vars
SpecTileset == InitTileset /\ [][NextTileset]_vars
SpecAccessors == InitLayer /\ [][NextAccessors]_vars
SpecLocation == InitResolve /\ [][NextLocation]_vars
SpecTwin == InitTwin /\ [][NextTwin]_vars
SpecLayer == InitLayer /\ [][NextLayer]_vars
SpecFaultyLayer == InitFaultyLayer /\ [][NextFaultyLayer]_vars
NextNonNull == Parse \/ NonNull \/ NonNullNext

SpecGids == InitLayer /\ [][NextGids]_vars
SpecNonNull == InitLayer /\ [][NextNonNull]_vars

----------------------------------------------------------------------------
(* What the document says, read off layer_node *)

IntAttr(node, name) == attribute(node, name)[1]

DeclaredWidth == IntAttr(layer_node, "width")
DeclaredHeight == IntAttr(layer_node, "height")

\* The chunk elements of the layer's data element.
DocChunks == layer_node.children[1].children

\* Whether chunk element n covers the world coordinate (x, y).
Covers(n, x, y) ==
    /\ IntAttr(n, "x") <= x /\ x < IntAttr(n, "x") + IntAttr(n, "width")
    /\ IntAttr(n, "y") <= y /\ y < IntAttr(n, "y") + IntAttr(n, "height")

SetMin(S) == CHOOSE m \in S : \A n \in S : m <= n
SetMax(S) == CHOOSE m \in S : \A n \in S : m >= n

\* The union bounding box of the chunk rectangles (for one or more chunks).
UnionBox ==
    LET I == 1..Len(DocChunks)
        x0 == SetMin({IntAttr(DocChunks[i], "x") : i \in I})
        y0 == SetMin({IntAttr(DocChunks[i], "y") : i \in I})
        x1 == SetMax({IntAttr(DocChunks[i], "x") + IntAttr(DocChunks[i], "width") : i \in I})
        y1 == SetMax({IntAttr(DocChunks[i], "y") + IntAttr(DocChunks[i], "height") : i \in I})
    IN  TileLayerRegion(x0, y0, x1 - x0, y1 - y0)

\* Whether v lies in [lo, lo + extent).
Within(v, lo, extent) == \E k \in 0..(extent - 1) : v = lo + k

InRegion(region, x, y) ==
    Within(x, region.x, region.width) /\ Within(y, region.y, region.height)

\* A raw id with its top 4 bits cleared, as a number.
Low28(raw) == (raw[1] % 4096) * 65536 + raw[2]

Sorted(entries) ==
    \A i, j \in 1..Len(entries) : i < j => entries[i] <= entries[j]

----------------------------------------------------------------------------
(* Claims *)

\* C1: Gid::resolve of a non-zero raw id against entries in non-decreasing
\* first_gid order is Value at the position of an entry with the greatest
\* first_gid <= stripped, with tile_id = stripped - that first_gid; it is Null
\* when no entry has first_gid <= stripped.
C1_ResolveGreatestFirstGid ==
    (call.op = "resolve" /\ call.gid # U32(0, 0) /\ Sorted(ctx.tilesets)) =>
        LET entries == ctx.tilesets
            stripped == Low28(call.gid)
            Q == {i \in 1..Len(entries) : entries[i] <= stripped}
        IN  IF Q = {} THEN call.ret = GidNull
            ELSE /\ call.ret.tag = "Value"
                 /\ call.ret.tileset_index + 1 \in Q
                 /\ \A i \in Q : entries[i] <= entries[call.ret.tileset_index + 1]
                 /\ call.ret.tile_id = stripped - entries[call.ret.tileset_index + 1]

\* The example of the claim: first_gids 1, 50, 100 and raw 0x8000_0037.
C1_Witness ==
    /\ call.op = "resolve" /\ call.gid = U32(32768, 55) /\ ctx.tilesets = <<1, 50, 100>>
    /\ call.ret.tag = "Value" /\ call.ret.tileset_index = 1 /\ call.ret.tile_id = 5

\* C2: for a raw id that resolves to Value the four Flip tests equal bits 31,
\* 30, 29 and 28 of the raw id, and every raw id with the same low 28 bits that
\* resolves to Value has the same tileset_index and tile_id.
C2_FlagDecomposition ==
    (call.op = "resolve" /\ call.ret.tag = "Value") =>
        /\ is_flipped_horizontal(call.ret.flip) = ((call.gid[1] \div 32768) % 2 = 1)
        /\ is_flipped_vertical(call.ret.flip) = ((call.gid[1] \div 16384) % 2 = 1)
        /\ is_flipped_diagonal(call.ret.flip) = ((call.gid[1] \div 8192) % 2 = 1)
        /\ is_rotated_hex_120(call.ret.flip) = ((call.gid[1] \div 4096) % 2 = 1)
        /\ \A other \in RawIds :
              LET r == resolve(other, ctx.tilesets)
              IN  (Low28(other) = Low28(call.gid) /\ r.tag = "Value") =>
                      /\ r.tileset_index = call.ret.tileset_index
                      /\ r.tile_id = call.ret.tile_id

\* A raw id carrying only the hex-rotation flag (bit 28) over a non-zero low part.
C2_Witness ==
    /\ call.op = "resolve" /\ call.gid = U32(4096, 55) /\ call.ret.tag = "Value"
    /\ is_rotated_hex_120(call.ret.flip) /\ ~is_flipped_horizontal(call.ret.flip)

\* C3: Gid::resolve is Null for every raw id whose flag-stripped value is zero,
\* whatever the entries list.
C3_StrippedZeroIsNull ==
    (call.op = "resolve" /\ Low28(call.gid) = 0) => call.ret = GidNull

\* C4: a finite layer declared W x H whose CSV data holds W*H ids parses to a
\* layer with region (0, 0, W, H), and gid_at(x, y) inside it is Gid::resolve of
\* the raw id at flat index y*W + x.
C4_FiniteAssembly ==
    (~ctx.infinite /\ parsed # NotParsed
       /\ Len(src_ids) >= 1 /\ Len(src_ids) = DeclaredWidth * DeclaredHeight) =>
        /\ parsed.tag = "Ok"
        /\ parsed.val.region = TileLayerRegion(0, 0, DeclaredWidth, DeclaredHeight)
        /\ (call.op = "gid_at" /\ call.x \in 0..(DeclaredWidth - 1)
                               /\ call.y \in 0..(DeclaredHeight - 1)) =>
              call.ret = Ok(resolve(src_ids[call.y * DeclaredWidth + call.x + 1], ctx.tilesets))

C4_Witness ==
    /\ ~ctx.infinite /\ parsed.tag = "Ok"
    /\ DeclaredWidth = 2 /\ DeclaredHeight = 2 /\ Len(src_ids) = 4
    /\ call.op = "gid_at" /\ call.x = 0 /\ call.y = 1
    /\ call.ret.tag = "Ok" /\ call.ret.val.tag = "Value"
    /\ call.ret.val # parsed.val.tile_gids[2]

\* C5: gid_at(x, y) returns Null, without panicking, for every coordinate
\* outside the layer's region.
C5_OutsideRegionIsNull ==
    (call.op = "gid_at" /\ ~InRegion(parsed.val.region, call.x, call.y)) =>
        call.ret = Ok(GidNull)

\* C6: after a successful parse of an infinite layer with one or more chunks,
\* the region is exactly the union bounding box of the chunk rectangles.
C6_RegionIsUnionBox ==
    (ctx.infinite /\ parsed.tag = "Ok" /\ Len(DocChunks) >= 1) =>
        parsed.val.region = UnionBox

\* C7: every successfully parsed layer has tile_gids.len() = region.width * region.height.
C7_RasterSize ==
    parsed.tag = "Ok" =>
        Len(parsed.val.tile_gids) = parsed.val.region.width * parsed.val.region.height

\* C8: in an infinite layer, gid_at at a coordinate inside the region that no
\* chunk rectangle covers is Null.
C8_UncoveredIsNull ==
    (ctx.infinite /\ call.op = "gid_at"
       /\ InRegion(parsed.val.region, call.x, call.y)
       /\ \A i \in 1..Len(DocChunks) : ~Covers(DocChunks[i], call.x, call.y)) =>
        call.ret = Ok(GidNull)

\* Two chunks that do not tile their union box, queried at an uncovered cell of it.
C8_Witness ==
    /\ ctx.infinite /\ call.op = "gid_at" /\ Len(DocChunks) = 2
    /\ InRegion(UnionBox, call.x, call.y)
    /\ InRegion(parsed.val.region, call.x, call.y)
    /\ \A i \in 1..2 : ~Covers(DocChunks[i], call.x, call.y)
    /\ \E k \in 1..Len(parsed.val.tile_gids) : parsed.val.tile_gids[k] # GidNull
    /\ call.ret = Ok(GidNull)

\* C9: an infinite layer whose data element has no chunk children parses
\* successfully to a zero-extent raster at origin (0, 0).
C9_ZeroChunks ==
    (ctx.infinite /\ parsed # NotParsed /\ Len(DocChunks) = 0) =>
        /\ parsed.tag = "Ok"
        /\ parsed.val.region = TileLayerRegion(0, 0, 0, 0)
        /\ parsed.val.tile_gids = <<>>

\* The sequence gids() is to yield: item k (from 0) is
\* (region.x + k mod region.width, region.y + k div region.width, tile_gids[k]).
RowMajorItems(layer) ==
    [k \in 1..Len(layer.tile_gids) |->
        <<layer.region.x + ((k - 1) % layer.region.width),
          layer.region.y + ((k - 1) \div layer.region.width),
          layer.tile_gids[k]>>]

\* C10: every run of gids() over a layer (of non-zero region width) yields the
\* stored cells once each in row-major order with world coordinates, item by
\* item, then None; a second run over the same layer yields the same.
C10_GidsRowMajor ==
    (gids # None /\ parsed.val.region.width > 0) =>
        LET expected == RowMajorItems(parsed.val)
        IN  /\ Len(yielded) <= Len(expected)
            /\ yielded = SubSeq(expected, 1, Len(yielded))
            /\ call.op = "next" =>
                  /\ call.ret.tag = "Ok"
                  /\ call.ret.val = None => yielded = expected
                  /\ call.ret.val # None =>
                        call.ret.val = Some(expected[Len(yielded)])

\* A second, finished run over a raster of two rows or more whose origin is not (0, 0).
C10_Witness ==
    /\ runs = 2 /\ call.op = "next" /\ call.ret = Ok(None)
    /\ parsed.val.region.x < 0 /\ parsed.val.region.height >= 2
    /\ parsed.val.region.width >= 2
    /\ Len(yielded) >= 4
    /\ \E k \in 1..Len(yielded) : yielded[k][3] # GidNull

\* Everything an iterator yields from `it` on, in order.
RECURSIVE ItemsFrom(_, _)
ItemsFrom(layer, it) ==
    Eval(Gids_next(layer, it),
         LAMBDA r :
           IF r.tag = "Panic" \/ r.val.item = None THEN <<>>
           ELSE <<r.val.item[1]>> \o ItemsFrom(layer, r.val.it))

\* The items of gids() on the parsed layer, and those of them that are not Null.
AllItems == ItemsFrom(parsed.val, TileLayer_gids(parsed.val))
KeptItems == SelectSeq(AllItems, LAMBDA t : t[3] # GidNull)

\* C11: what gids().non_null() has yielded so far is a prefix of the non-Null
\* items of gids() (same coordinates, same order), every item it returns is
\* the next of them, and when it returns None it has yielded all of them.
C11_NonNullIsFilter ==
    (parsed.tag = "Ok" /\ call.op \in {"non_null", "non_null_next"}) =>
        /\ Len(yielded) <= Len(KeptItems)
        /\ yielded = SubSeq(KeptItems, 1, Len(yielded))
        /\ (call.op = "non_null_next" /\ call.ret.tag = "Ok") =>
              IF call.ret.val = None THEN yielded = KeptItems
              ELSE yielded # <<>> /\ call.ret.val[1] = yielded[Len(yielded)]

\* An exhausted non_null() run over a raster that starts with a Null cell, ends
\* with one, has two Null cells in a row and holds Value cells as well.
C11_Witness ==
    /\ parsed.tag = "Ok" /\ call.op = "non_null_next" /\ call.ret = Ok(None)
    /\ yielded = KeptItems /\ yielded # <<>>
    /\ AllItems[1][3] = GidNull
    /\ AllItems[Len(AllItems)][3] = GidNull
    /\ \E k \in 1..(Len(AllItems) - 1) :
          AllItems[k][3] = GidNull /\ AllItems[k + 1][3] = GidNull

\* The call made is a decode of a payload of this kind.
Decoded(kind) == call.op = "parse_tile_gids" /\ call.payload.kind = kind

\* The ids a sequence of CSV tokens denotes.
TokenIds(tokens) == [k \in 1..Len(tokens) |-> tokens[k].id]

\* C12: a binary payload made of whole ids only (packed little-endian,
\* compressed or not, base64-encoded) decodes to exactly those ids.
C12_RoundTrip ==
    (Decoded("binary") /\ Len(call.payload.bytes) = 4 * Len(call.payload.ids)) =>
        call.ret = Ok(call.payload.ids)

\* C13: a binary payload whose byte stream is not a multiple of 4 long is
\* answered with an error.
C13_PartialGroupIsError ==
    (Decoded("binary") /\ Len(call.payload.bytes) % 4 # 0) => call.ret.tag = "Err"

\* C14 as stated: a CSV payload whose tokens are all decimal numbers (whitespace
\* around them aside) decodes to their ids in order; any other token, a signed
\* one included, makes the call fail with ParseIntError.
C14_CsvDecoding ==
    Decoded("csv") =>
        IF \A k \in 1..Len(call.payload.tokens) : call.payload.tokens[k].kind = "number"
        THEN call.ret = Ok(TokenIds(call.payload.tokens))
        ELSE call.ret = Err("ParseIntError")

\* C14 amended: as above, except that a token of '+' and digits counts as the
\* number after the '+'.
C14_CsvDecodingPlusAccepted ==
    Decoded("csv") =>
        IF \A k \in 1..Len(call.payload.tokens) :
              call.payload.tokens[k].kind \in {"number", "plus sign"}
        THEN call.ret = Ok(TokenIds(call.payload.tokens))
        ELSE call.ret = Err("ParseIntError")

\* " 7\n,+1" decodes to 7, 1.
C14_Witness ==
    /\ Decoded("csv")
    /\ call.payload.text = <<" ", "7", "\n", ",", "+", "1">>
    /\ call.ret = Ok(<<U32(0, 7), U32(0, 1)>>)

\* C15: a pair outside the supported ones fails with the unsupported-encoding
\* error of error.rs, not with the error corrupt base64 gets.
C15_UnsupportedError ==
    Decoded("unsupported") => call.ret = Err("UnsupportedEncodingAndCompression")

\* The (encoding, compression) pairs parse_tile_gids decodes.
SupportedPairs ==
    { <<Some("csv"), None>>, <<Some("base64"), None>>, <<Some("base64"), Some("gzip")>>,
      <<Some("base64"), Some("zlib")>>, <<Some("base64"), Some("zstd")>> }

\* The data elements among the layer's children.
DataElements == {layer_node.children[k] : k \in {j \in 1..Len(layer_node.children) :
                                                    layer_node.children[j].name = "data"}}

ChunkElements(d) == {d.children[k] : k \in {j \in 1..Len(d.children) :
                                                d.children[j].name = "chunk"}}

\* C16: a layer whose data element carries an unsupported (encoding,
\* compression) pair does not parse: TileLayer::parse returns Err, which it
\* can do only before the raster is allocated.
C16_MalformedPairFails ==
    (parsed # NotParsed
     /\ \E d \in DataElements :
           <<attribute(d, "encoding"), attribute(d, "compression")>> \notin SupportedPairs)
        => parsed.tag = "Err"

\* C18: a layer without a data element, a finite layer whose data element has
\* no text, and an infinite layer with a chunk that has no text all parse to
\* the structural error.
C18_StructuralErrors ==
    (parsed # NotParsed
     /\ \/ DataElements = {}
        \/ \E d \in DataElements :
              \/ ~ctx.infinite /\ d.text = None
              \/ ctx.infinite /\ \E c \in ChunkElements(d) : c.text = None)
        => parsed = Err("InvalidLayerError")

\* The layer's declared extent (finite map) or one of its chunks (infinite
\* map) is HugeSide or more on both sides.
HugeExtent ==
    IF ctx.infinite
    THEN \E d \in DataElements : \E c \in ChunkElements(d) :
            IntAttr(c, "width") >= HugeSide /\ IntAttr(c, "height") >= HugeSide
    ELSE DeclaredWidth >= HugeSide /\ DeclaredHeight >= HugeSide

\* C19: a layer that needs 2^32 cells or more is refused with an error, and no
\* parse ends in an arithmetic overflow.
C19_SizeLimit ==
    parsed # NotParsed =>
        /\ HugeExtent => parsed.tag = "Err"
        /\ parsed # Panic("arithmetic overflow")

\* C17: a map document whose data section is corrupt, at the top level or
\* inside nested groups, finite or chunked, makes Map::parse_str return an
\* error: no Map is produced for it.
C17_CorruptSectionFailsMap ==
    (call.op = "parse_str" /\ document[1].section # "sound") => call.ret.tag = "Err"

\* Whether both the layer and its twin were asked for the id at (x, y), a
\* coordinate of the content.
BothAsked ==
    /\ twin # None
    /\ call.op = "gid_at"
    /\ twin[1].call.op = "gid_at"
    /\ call.x \in 0..(DeclaredWidth - 1)
    /\ call.y \in 0..(DeclaredHeight - 1)

\* C20: a finite layer and the chunks of an infinite layer that hold the same
\* content at the same coordinates both parse, and gid_at(x, y) returns the
\* same Gid from both for every coordinate of the content: the id the
\* document holds there.
C20_FiniteChunkedAgree ==
    /\ (parsed # NotParsed /\ twin # None) => parsed.tag = "Ok"
    /\ (twin # None /\ twin[1].parsed # NotParsed) => twin[1].parsed.tag = "Ok"
    /\ BothAsked =>
          /\ call.ret.tag = "Ok"
          /\ twin[1].call.ret = call.ret
          /\ call.ret.val =
                resolve(src_ids[(call.y * DeclaredWidth) + call.x + 1], ctx.tilesets)

\* Both were asked for a cell of the second row and second column of a
\* content cut into two chunks, and the cell holds a tile.
C20_Witness ==
    /\ BothAsked
    /\ call.x = 1 /\ call.y = 1
    /\ Len(twin[1].node.children[1].children) = 2
    /\ call.ret.tag = "Ok" /\ call.ret.val # GidNull

\* C21: Map::tile_location_of(gid) on entries in non-decreasing first_gid
\* order is Some((i, t)) with i the index of an entry of greatest first_gid <=
\* the gid's value and t = value - that first_gid, None when there is no such
\* entry, and the pair is the one Gid::resolve computes for the same id.
C21_LocationIsResolve ==
    (call.op = "tile_location_of" /\ Sorted(ctx.tilesets)) =>
        LET entries == ctx.tilesets
            value == Low28(call.gid)
            Q == {i \in 1..Len(entries) : entries[i] <= value}
            r == resolve(call.gid, entries)
        IN  /\ IF Q = {} THEN call.ret = None
               ELSE /\ call.ret # None
                    /\ call.ret[1][1] + 1 \in Q
                    /\ \A i \in Q : entries[i] <= entries[call.ret[1][1] + 1]
                    /\ call.ret[1][2] = value - entries[call.ret[1][1] + 1]
            /\ r.tag = "Value" => call.ret = Some(<<r.tileset_index, r.tile_id>>)

\* C22: on a layer parsed from an element with width=W and height=H, width()
\* returns W and height() returns H.
C22_WidthAndHeight ==
    /\ call.op = "width" => call.ret = DeclaredWidth
    /\ call.op = "height" => call.ret = DeclaredHeight

\* C23: tile_at(x, y) is None on a tileset without an image; on a tileset
\* with an image it is None for every x outside [0, columns) and tile(y *
\* columns + x) for every other x.
C23_TileAt ==
    call.op = "tile_at" =>
        IF ~document[1].image \/ call.x >= document[1].columns
        THEN call.ret = None
        ELSE call.ret = Tileset_tile(tileset.val, (call.y * document[1].columns) + call.x)

\* What the document's tile element e says about its tile.
ElementData(e) ==
    [DefaultTile EXCEPT
       !.x = Some(e.x),
       !.image = IF document[1].image THEN None
                 ELSE Some([source |-> "tile.png", width |-> Some(16), height |-> None])]

\* The tile elements of the document with the given id.
ElementsOf(id) ==
    {document[1].elements[k] : k \in {j \in 1..Len(document[1].elements) :
                                        document[1].elements[j].id = id}}

\* C28: a tileset with an image child and tilecount N parses, and tile(id) is
\* Some for every id in 0..N-1: the data of a tile element with that id if
\* there is one, the default tile otherwise.  In a tileset without an image
\* child tile(id) is Some exactly for the ids of its tile elements.
C28_Population ==
    /\ tileset # NotParsed => tileset.tag = "Ok"
    /\ call.op = "tile" =>
          /\ ElementsOf(call.id) # {} =>
                call.ret \in {Some(ElementData(e)) : e \in ElementsOf(call.id)}
          /\ (ElementsOf(call.id) = {} /\ document[1].image
                /\ call.id < document[1].tile_count) => call.ret = Some(DefaultTile)
          /\ (ElementsOf(call.id) = {} /\ ~document[1].image) => call.ret = None

\* tile(0) and tile(1) cases: a tileset of three tiles on one image whose only
\* tile element describes tile 1, asked for tile 0.
C28_Witness ==
    /\ call.op = "tile" /\ call.id = 0
    /\ document # None /\ document[1].image /\ document[1].tile_count = 3
    /\ document[1].elements = <<[id |-> 1, x |-> 7]>>
    /\ call.ret = Some(DefaultTile)
    /\ Tileset_tile(tileset.val, 1) = Some([DefaultTile EXCEPT !.x = Some(7)])

\* The chunks of the document that cover (x, y), by position.
Covering(x, y) == {i \in 1..Len(DocChunks) : Covers(DocChunks[i], x, y)}

\* The id the document's chunk i holds for the world coordinate (x, y):
\* row-major in the chunk, resolved against the layer's tilesets.
ChunkIdAt(i, x, y) ==
    LET lx == x - IntAttr(DocChunks[i], "x")
        ly == y - IntAttr(DocChunks[i], "y")
    IN  resolve(src_ids[i][(ly * IntAttr(DocChunks[i], "width")) + lx + 1], ctx.tilesets)

\* No coordinate is covered by two chunks.
Disjoint ==
    \A i, j \in 1..Len(DocChunks) :
        i < j => \A x \in -2..3, y \in -2..3 :
                    ~(Covers(DocChunks[i], x, y) /\ Covers(DocChunks[j], x, y))

\* C24: in an infinite layer of non-overlapping chunks that hold width*height
\* ids each, gid_at(x + lx, y + ly) for a cell (lx, ly) of a chunk at (x, y)
\* is the chunk's resolved id at row-major index ly * width + lx.
C24_ChunkPlacement ==
    (ctx.infinite /\ Disjoint /\ Len(DocChunks) >= 1) =>
        /\ parsed # NotParsed => parsed.tag = "Ok"
        /\ \A i \in 1..Len(DocChunks) :
              (call.op = "gid_at" /\ Covers(DocChunks[i], call.x, call.y)) =>
                  call.ret = Ok(ChunkIdAt(i, call.x, call.y))

\* The second row of a two-row chunk away from 0, next to another chunk, read
\* at a cell that holds a tile.
C24_Witness ==
    /\ ctx.infinite /\ Disjoint /\ Len(DocChunks) = 2
    /\ call.op = "gid_at" /\ call.x = 0 /\ call.y = 0
    /\ Covers(DocChunks[1], 0, 0)
    /\ IntAttr(DocChunks[1], "x") = -1 /\ IntAttr(DocChunks[1], "y") = -1
    /\ call.ret.tag = "Ok" /\ call.ret.val # GidNull

\* C25: when two chunks of an infinite layer cover a coordinate, the parse
\* succeeds and gid_at there is the id of the chunk that stands later in the
\* document, also when that id is Null.
C25_LaterChunkWins ==
    (ctx.infinite /\ Len(DocChunks) = 2 /\ ~Disjoint) =>
        /\ parsed # NotParsed => parsed.tag = "Ok"
        /\ (call.op = "gid_at" /\ Covering(call.x, call.y) = {1, 2}) =>
              call.ret = Ok(ChunkIdAt(2, call.x, call.y))

\* Two chunks cover the cell read; the earlier holds a tile there, the later
\* holds no tile, and no tile is returned.
C25_Witness ==
    /\ ctx.infinite /\ Len(DocChunks) = 2
    /\ call.op = "gid_at" /\ Covering(call.x, call.y) = {1, 2}
    /\ ChunkIdAt(1, call.x, call.y) # GidNull
    /\ ChunkIdAt(2, call.x, call.y) = GidNull
    /\ call.ret = Ok(GidNull)

\* C26: a finite layer whose data holds more than width*height ids yields
\* from gids() only cells inside [0, width) x [0, height); one whose data
\* holds fewer answers gid_at at every coordinate inside the declared extent
\* without indexing past the stored ids.
C26_CountMismatch ==
    (~ctx.infinite /\ parsed.tag = "Ok") =>
        /\ Len(src_ids) > DeclaredWidth * DeclaredHeight =>
              /\ \A k \in 1..Len(yielded) :
                    /\ yielded[k][1] \in 0..(DeclaredWidth - 1)
                    /\ yielded[k][2] \in 0..(DeclaredHeight - 1)
              /\ call.op = "next" => call.ret.tag = "Ok"
        /\ (Len(src_ids) < DeclaredWidth * DeclaredHeight /\ call.op = "gid_at"
              /\ call.x \in 0..(DeclaredWidth - 1) /\ call.y \in 0..(DeclaredHeight - 1)) =>
              call.ret.tag = "Ok"

\* The tile layers among the layers, those nested in groups included.
RECURSIVE TileLayersOf(_, _)
TileLayersOf(layers, i) ==
    IF i > Len(layers) THEN {}
    ELSE (IF layers[i].kind.tag = "TileLayer" THEN {layers[i].kind.layer}
          ELSE TileLayersOf(layers[i].kind.layers, 1))
         \cup TileLayersOf(layers, i + 1)

WithoutProperties(node) ==
    [node EXCEPT !.children = SelectSeq(@, LAMBDA n : n.name # "properties")]

\* C29: a tile layer parses to the same raster wherever its data element
\* stands among its children: with a properties element before or after the
\* data element the outcome is that of the layer without properties, a
\* successful parse.
C29_DataElementFound ==
    parsed # NotParsed =>
        /\ parsed = TileLayer_parse(WithoutProperties(layer_node), ctx)
        /\ parsed.tag = "Ok"

\* C30: the parse of an infinite layer with a chunk whose id count differs
\* from its width * height ends with an Err or with a raster of region.width *
\* region.height cells, never with a panic.
C30_ShortChunk ==
    (ctx.infinite /\ parsed # NotParsed
       /\ \E i \in 1..Len(DocChunks) :
             Len(src_ids[i]) # IntAttr(DocChunks[i], "width") * IntAttr(DocChunks[i], "height")) =>
        \/ parsed.tag = "Err"
        \/ /\ parsed.tag = "Ok"
           /\ Len(parsed.val.tile_gids) = parsed.val.region.width * parsed.val.region.height

====
